---------------------------- MODULE Spec2Model ----------------------------
(***************************************************************************)
(* Relationship discovery of the ClickZetta semantic model generator.     *)
(*                                                                         *)
(* Strings are sequences of one-character strings, so that the string     *)
(* algorithms of the source (upper-casing, prefix and suffix stripping,   *)
(* substring tests, Levenshtein distance) are computed, not assumed.      *)
(* Scores that the source holds as floats are IEEE-754 binary64 values,   *)
(* computed with the rounding of each operation of the source; the        *)
(* inference engine, which is not in the sources, keeps exact rationals.  *)
(***************************************************************************)
EXTENDS Integers, Sequences, FiniteSets, TLC

Min2(a, b) == IF a <= b THEN a ELSE b
Max2(a, b) == IF a >= b THEN a ELSE b

(***************************************************************************)
(* Floats.  A Python float is an IEEE 754 binary64 number; it is kept as   *)
(* the exact number it stands for, <<sign, exp, limbs>> = sign * N *       *)
(* Limb^exp with N the natural number whose digits in base Limb are limbs, *)
(* most significant first.  The first and the last limb are not 0, so that *)
(* a number has one form; zero is <<0, 0, <<>>>>.  The arithmetic is exact *)
(* and RoundFloat rounds a result to the 53 significant bits of a float,   *)
(* to the nearest, ties to even, as the processor does.                    *)
(***************************************************************************)
Limb == 16384
FloatZero == <<0, 0, <<>>>>

RECURSIVE StripLeadingZeros(_)
StripLeadingZeros(limbs) ==
    IF limbs = <<>> THEN <<>>
    ELSE IF limbs[1] = 0 THEN StripLeadingZeros(Tail(limbs))
    ELSE limbs

\* the number of zero limbs at the end of limbs, whose first limb is not 0
TrailingZeros(limbs) ==
    Len(limbs) - (CHOOSE i \in 1..Len(limbs) :
                      limbs[i] # 0 /\ \A j \in (i + 1)..Len(limbs) : limbs[j] = 0)

CanonicalFrom(sign, exp, limbs, zeros) ==
    <<sign, exp + zeros, SubSeq(limbs, 1, Len(limbs) - zeros)>>

CanonicalStripped(sign, exp, limbs) ==
    IF limbs = <<>> THEN FloatZero
    ELSE CanonicalFrom(sign, exp, limbs, TrailingZeros(limbs))

\* the one form of sign * N * Limb^exp
Canonical(sign, exp, limbs) == CanonicalStripped(sign, exp, StripLeadingZeros(limbs))

\* the limbs of the natural number with the digits raw[1..i], any integers,
\* carried over from the right
RECURSIVE Carry(_, _, _, _)
Carry(raw, i, carry, limbs) ==
    IF i = 0
    THEN IF carry = 0 THEN limbs
         ELSE Carry(raw, 0, carry \div Limb, <<carry % Limb>> \o limbs)
    ELSE Carry(raw, i - 1, (raw[i] + carry) \div Limb, <<(raw[i] + carry) % Limb>> \o limbs)

Carried(raw) == Carry(raw, Len(raw), 0, <<>>)

\* the limb of x at the position of Limb^k
LimbAt(x, k) ==
    IF k >= x[2] /\ k < x[2] + Len(x[3]) THEN x[3][x[2] + Len(x[3]) - k] ELSE 0

\* the limbs of x from Limb^(top - 1) down to Limb^exp
Aligned(x, exp, top) == [i \in 1..(top - exp) |-> LimbAt(x, top - i)]

\* -1, 0 or 1 as a < b, a = b or a > b, for limbs of one length
CompareLimbs(a, b) ==
    IF a = b THEN 0
    ELSE LET i == CHOOSE i \in 1..Len(a) : a[i] # b[i] /\ \A j \in 1..(i - 1) : a[j] = b[j]
         IN  IF a[i] > b[i] THEN 1 ELSE -1

SubtractLimbs(sign_a, a, sign_b, b, exp, order) ==
    IF order = 0 THEN FloatZero
    ELSE IF order > 0
    THEN Canonical(sign_a, exp, Carried([i \in 1..Len(a) |-> a[i] - b[i]]))
    ELSE Canonical(sign_b, exp, Carried([i \in 1..Len(a) |-> b[i] - a[i]]))

AddAligned(sign_a, a, sign_b, b, exp) ==
    IF sign_a = sign_b
    THEN Canonical(sign_a, exp, Carried([i \in 1..Len(a) |-> a[i] + b[i]]))
    ELSE SubtractLimbs(sign_a, a, sign_b, b, exp, CompareLimbs(a, b))

AddBetween(x, y, exp, top) ==
    AddAligned(x[1], Aligned(x, exp, top), y[1], Aligned(y, exp, top), exp)

\* x + y, exactly
ExactAdd(x, y) ==
    IF x[1] = 0 THEN y
    ELSE IF y[1] = 0 THEN x
    ELSE AddBetween(x, y, Min2(x[2], y[2]), Max2(x[2] + Len(x[3]), y[2] + Len(y[3])))

Negated(x) == <<-x[1], x[2], x[3]>>

\* the sign of x - y
FloatCompare(x, y) == IF x = y THEN 0 ELSE ExactAdd(x, Negated(y))[1]

\* the digit of Limb^(n - k) of the product of the limbs a and b, not carried
RECURSIVE ProductColumn(_, _, _, _, _)
ProductColumn(a, b, k, i, sum) ==
    IF i > Len(a) \/ i > k THEN sum
    ELSE IF k + 1 - i > Len(b) THEN ProductColumn(a, b, k, i + 1, sum)
    ELSE ProductColumn(a, b, k, i + 1, sum + a[i] * b[k + 1 - i])

\* x * y, exactly
ExactMul(x, y) ==
    IF x[1] = 0 \/ y[1] = 0 THEN FloatZero
    ELSE Canonical(x[1] * y[1], x[2] + y[2],
                   Carried([k \in 1..(Len(x[3]) + Len(y[3]) - 1) |->
                               ProductColumn(x[3], y[3], k, 1, 0)]))

\* the number of bits of a limb that is not 0
BitLength(limb) == CHOOSE k \in 1..14 : 2^(k - 1) <= limb /\ limb < 2^k

\* x without its last whole limbs and the last bits of the limb before
\* them, rounded to the nearest, ties to even; unit is 2^bits, low the bits
\* dropped of that limb, half whether what is dropped is 1 for more than a
\* half, 0 for a half, -1 for less
RoundedAt(x, whole, unit, low, half) ==
    LET kept == Len(x[3]) - whole
        odd == (x[3][kept] \div unit) % 2 = 1
        up == half > 0 \/ (half = 0 /\ odd)
    IN  Canonical(x[1], x[2] + whole,
                  Carried([i \in 1..kept |->
                              IF i < kept THEN x[3][i]
                              ELSE x[3][i] - low + (IF up THEN unit ELSE 0)]))

\* 1, 0 or -1 as what is dropped of x is more than, equal to or less than a
\* half of the last place kept
DroppedHalf(x, whole, bits) ==
    LET n == Len(x[3])
        low == x[3][n - whole] % (2^bits)
        first == IF bits > 0 THEN low ELSE x[3][n - whole + 1]
        middle == IF bits > 0 THEN 2^(bits - 1) ELSE Limb \div 2
        others == IF bits > 0 THEN (n - whole + 1)..n ELSE (n - whole + 2)..n
    IN  IF first > middle THEN 1
        ELSE IF first < middle THEN -1
        ELSE IF \E i \in others : x[3][i] # 0 THEN 1 ELSE 0

DropBits(x, whole, bits) ==
    RoundedAt(x, whole, 2^bits, x[3][Len(x[3]) - whole] % (2^bits), DroppedHalf(x, whole, bits))

RoundBits(x, drop) ==
    IF drop <= 0 THEN x ELSE DropBits(x, drop \div 14, drop % 14)

\* x as the nearest float
RoundFloat(x) ==
    IF x[1] = 0 THEN x
    ELSE RoundBits(x, 14 * (Len(x[3]) - 1) + BitLength(x[3][1]) - 53)

FloatAdd(x, y) == RoundFloat(ExactAdd(x, y))
FloatSub(x, y) == RoundFloat(ExactAdd(x, Negated(y)))
FloatMul(x, y) == RoundFloat(ExactMul(x, y))
FloatGE(x, y) == FloatCompare(x, y) >= 0
FloatGT(x, y) == FloatCompare(x, y) > 0
FloatLT(x, y) == FloatCompare(x, y) < 0
FloatLE(x, y) == FloatCompare(x, y) <= 0
\* Python's min and max give their first argument when the two are equal
FloatMin(x, y) == IF FloatLT(y, x) THEN y ELSE x
FloatMax(x, y) == IF FloatGT(y, x) THEN y ELSE x
FloatAbs(x) == <<x[1] * x[1], x[2], x[3]>>

\* the integer n as a float (|n| < 2^31 has less than 53 bits)
FloatOfInt(n) ==
    IF n = 0 THEN FloatZero
    ELSE Canonical(IF n < 0 THEN -1 ELSE 1, 0, Carried(<<IF n < 0 THEN -n ELSE n>>))

\* the quotient of the limbs num by 0 < n < 2^17, limb by limb, and one
\* more limb that is 1 when the division leaves a remainder
RECURSIVE LongDivision(_, _, _, _, _)
LongDivision(num, n, i, remainder, quotient) ==
    IF i > Len(num) THEN Append(quotient, IF remainder = 0 THEN 0 ELSE 1)
    ELSE LongDivision(num, n, i + 1, (remainder * Limb + num[i]) % n,
                      Append(quotient, (remainder * Limb + num[i]) \div n))

\* x / n as the nearest float, x exact and 0 < n < 2^17: the quotient is
\* taken six limbs beyond x, which is more than 53 bits
DivideByInt(x, n) ==
    IF x[1] = 0 THEN x
    ELSE RoundFloat(Canonical(x[1], x[2] - 7,
                              LongDivision(x[3] \o <<0, 0, 0, 0, 0, 0>>, n, 1, 0, <<>>)))

\* a / b for integers, 0 < b < 2^17; the literal 0.25 is Float(25, 100)
Float(a, b) == DivideByInt(FloatOfInt(a), b)

\* the exact sum of a list of floats
RECURSIVE ExactSum(_, _, _)
ExactSum(list, i, sum) ==
    IF i > Len(list) THEN sum ELSE ExactSum(list, i + 1, ExactAdd(sum, list[i]))

\* statistics.mean: the exact sum over the length, rounded once
FloatMean(list) == DivideByInt(ExactSum(list, 1, FloatZero), Len(list))

\* Division of one float by another.  Natural numbers are limbs without
\* leading zeros.
NatCompare(a, b) ==
    IF Len(a) # Len(b) THEN (IF Len(a) > Len(b) THEN 1 ELSE -1) ELSE CompareLimbs(a, b)

\* a * d for a digit d
NatTimes(a, d) == StripLeadingZeros(Carried([i \in 1..Len(a) |-> a[i] * d]))

\* a - b for a >= b
NatMinus(a, b) ==
    StripLeadingZeros(Carried([i \in 1..Len(a) |->
        a[i] - (IF i > Len(a) - Len(b) THEN b[i - (Len(a) - Len(b))] ELSE 0)]))

\* the largest digit d of lo..hi with y * d <= r, by bisection
RECURSIVE QuotientDigit(_, _, _, _)
QuotientDigit(r, y, lo, hi) ==
    IF lo = hi THEN lo
    ELSE IF NatCompare(NatTimes(y, (lo + hi + 1) \div 2), r) <= 0
    THEN QuotientDigit(r, y, (lo + hi + 1) \div 2, hi)
    ELSE QuotientDigit(r, y, lo, (lo + hi + 1) \div 2 - 1)

\* the quotient of the limbs num by the natural number y, limb by limb, and
\* one more limb that is 1 when the division leaves a remainder
RECURSIVE DivideLimbs(_, _, _, _, _)
DivideDigit(num, y, i, r, quotient, d) ==
    DivideLimbs(num, y, i + 1, NatMinus(r, NatTimes(y, d)), Append(quotient, d))

DivideAt(num, y, i, r, quotient) ==
    DivideDigit(num, y, i, r, quotient, QuotientDigit(r, y, 0, Limb - 1))

DivideLimbs(num, y, i, remainder, quotient) ==
    IF i > Len(num) THEN Append(quotient, IF remainder = <<>> THEN 0 ELSE 1)
    ELSE DivideAt(num, y, i, StripLeadingZeros(Append(remainder, num[i])), quotient)

\* the quotient of x by y # 0 with more limbs than a float has bits
DivideBy(x, y, more) ==
    Canonical(x[1] * y[1], x[2] - y[2] - more - 1,
              DivideLimbs(x[3] \o [i \in 1..more |-> 0], y[3], 1, <<>>, <<>>))

\* x / y as the nearest float, y # 0
FloatDiv(x, y) ==
    IF x[1] = 0 THEN FloatZero
    ELSE RoundFloat(DivideBy(x, y, Len(y[3]) - Len(x[3]) + 5))

VARIABLES
    \* find_best_matches: its arguments, the position of the call, its result
    m_fk, m_pk, m_min, m_pc, m_matches,
    \* AdvancedRelationshipDiscovery.discover_relationships: its arguments,
    \* the position of the call, its result
    a_tables, a_sample_data, a_min_confidence, a_max_candidates, a_pc, a_result,
    \* AdvancedRelationshipDiscovery._apply_intelligent_filtering: its
    \* argument, the position of the call, its result
    f_candidates, f_pc, f_result,
    \* the two confidence calculations: which one, the scores, the raised
    \* dimension and its raised score, the position, the two confidences
    c_kind, c_scores, c_dim, c_value, c_pc, c_before, c_after,
    \* discover_relationships_from_table_definitions: the table definitions of
    \* each run and the tuning arguments, the run in progress and its position,
    \* the locals of the run (the tables after the cap, the flag and the notes
    \* of the cap, the FK columns not yet arbitrated, the accepted candidates,
    \* whether the deadline has passed), and the results returned so far
    d_tables, d_args, d_run, d_pc, d_raw_tables, d_limited_by_table_cap, d_notes,
    d_pending, d_accepted, d_timed_out, d_results,
    \* get_table_representation over the tables of a schema: the column rows
    \* of each table with the answer of the session to the sampling query of
    \* each column, the number of sample values asked for, the table in
    \* progress, its columns not yet built, its columns built so far, the
    \* tables built so far, and the position
    s_schema, s_ndv, s_table, s_pending, s_columns, s_tables, s_pc,
    \* _analyze_composite_key_patterns: its arguments, the position of the
    \* call, its result
    k_table_meta, k_column_pairs, k_column_index, k_pc, k_analysis,
    \* a call of one of the helper functions: the function, its arguments, the
    \* position of the call, and what it returned or raised
    call_fn, call_args, call_pc, call_result,
    \* _catalog_category: the dictionary _CATALOG_CATEGORY_CACHE of the module,
    \* the call that returned last (its number, its workspace, what it
    \* returned, whether it queried the session), the number of calls begun so
    \* far, and for each caller the call of it that waits for the session
    cat_cache, cat_call, cat_calls, cat_pending,
    \* enrich_semantic_model with an EnrichmentProgressTracker: whether each
    \* table of the model has raw metadata, the table of the loop, the position,
    \* current_stage and completed_stage_progress of the tracker, and the
    \* updates handed to the callback so far
    p_tables, p_index, p_pc, p_stage, p_completed, p_updates

matchVars == <<m_fk, m_pk, m_min, m_pc, m_matches>>
advVars == <<a_tables, a_sample_data, a_min_confidence, a_max_candidates, a_pc, a_result>>
filterVars == <<f_candidates, f_pc, f_result>>
confVars == <<c_kind, c_scores, c_dim, c_value, c_pc, c_before, c_after>>
discVars == <<d_tables, d_args, d_run, d_pc, d_raw_tables, d_limited_by_table_cap, d_notes,
              d_pending, d_accepted, d_timed_out, d_results>>
sampleVars == <<s_schema, s_ndv, s_table, s_pending, s_columns, s_tables, s_pc>>
keyVars == <<k_table_meta, k_column_pairs, k_column_index, k_pc, k_analysis>>
callVars == <<call_fn, call_args, call_pc, call_result>>
catVars == <<cat_cache, cat_call, cat_calls, cat_pending>>
progVars == <<p_tables, p_index, p_pc, p_stage, p_completed, p_updates>>
vars == <<matchVars, advVars, filterVars, confVars, discVars, sampleVars, keyVars, callVars, catVars, progVars>>

\* a specification leaves the variables of the other operations idle
MatchIdle ==
    /\ m_fk = <<>> /\ m_pk = <<>> /\ m_min = Float(5, 10) /\ m_pc = "idle" /\ m_matches = <<>>

AdvIdle ==
    /\ a_tables = <<>> /\ a_sample_data = <<>> /\ a_min_confidence = Float(1, 2)
    /\ a_max_candidates = 100 /\ a_pc = "idle" /\ a_result = <<>>

FilterIdle == f_candidates = <<>> /\ f_pc = "idle" /\ f_result = <<>>

ConfIdle ==
    /\ c_kind = "none" /\ c_scores = <<>> /\ c_dim = 0 /\ c_value = FloatZero
    /\ c_pc = "idle" /\ c_before = FloatZero /\ c_after = FloatZero

\* the locals of a run outside a run
DiscNoCall ==
    /\ d_raw_tables = <<>> /\ d_limited_by_table_cap = FALSE /\ d_notes = <<>>
    /\ d_pending = <<>> /\ d_accepted = <<>> /\ d_timed_out = FALSE

DiscIdle ==
    /\ d_tables = <<>> /\ d_args = <<>> /\ d_run = 0 /\ d_pc = "idle" /\ d_results = <<>>
    /\ DiscNoCall

SampleIdle ==
    /\ s_schema = <<>> /\ s_ndv = 0 /\ s_table = 0 /\ s_pending = {} /\ s_columns = <<>>
    /\ s_tables = <<>> /\ s_pc = "idle"

KeyIdle ==
    /\ k_table_meta = <<>> /\ k_column_pairs = <<>> /\ k_column_index = 0 /\ k_pc = "idle"
    /\ k_analysis = <<>>

CallIdle == call_fn = "none" /\ call_args = <<>> /\ call_pc = "idle" /\ call_result = <<>>

NoCatalogCall == [id |-> 0, workspace |-> <<>>, result |-> <<>>, queried |-> FALSE]

\* the threads that call _catalog_category
MaxCallers == 2
CatCallers == 1..MaxCallers

CatIdle ==
    /\ cat_cache = <<>> /\ cat_call = NoCatalogCall /\ cat_calls = 0
    /\ cat_pending = [caller \in CatCallers |-> <<>>]

ProgIdle ==
    /\ p_tables = <<>> /\ p_index = 0 /\ p_pc = <<"idle", 0>> /\ p_stage = "metadata_fetch"
    /\ p_completed = FloatZero /\ p_updates = <<>>

(***************************************************************************)
(* Characters and strings                                                  *)
(***************************************************************************)
LowerChars == <<"a","b","c","d","e","f","g","h","i","j","k","l","m",
                "n","o","p","q","r","s","t","u","v","w","x","y","z">>
UpperChars == <<"A","B","C","D","E","F","G","H","I","J","K","L","M",
                "N","O","P","Q","R","S","T","U","V","W","X","Y","Z">>

DigitChars == <<"0", "1", "2", "3", "4", "5", "6", "7", "8", "9">>

\* the two characters that wrap a quoted identifier: the backtick, which a
\* string of this module cannot hold, and the double quote
Backtick == "backtick"
DoubleQuote == "\""

\* str.upper() on one character
UpperChar(c) ==
    IF \E i \in 1..Len(LowerChars) : LowerChars[i] = c
    THEN UpperChars[CHOOSE i \in 1..Len(LowerChars) : LowerChars[i] = c]
    ELSE c

\* str.upper()
Upper(s) == [i \in 1..Len(s) |-> UpperChar(s[i])]

\* ch in s, for a single character ch
HasChar(s, ch) == \E i \in 1..Len(s) : s[i] = ch

\* s.endswith(suf)
EndsWith(s, suf) ==
    /\ Len(suf) <= Len(s)
    /\ SubSeq(s, Len(s) - Len(suf) + 1, Len(s)) = suf

\* s.startswith(pre)
StartsWith(s, pre) ==
    /\ Len(pre) <= Len(s)
    /\ SubSeq(s, 1, Len(pre)) = pre

\* sub in s (substring test)
IsSubstr(sub, s) ==
    \E i \in 0..(Len(s) - Len(sub)) : SubSeq(s, i + 1, i + Len(sub)) = sub

\* s[:-k] for 1 <= k
DropLast(s, k) == IF k >= Len(s) THEN <<>> ELSE SubSeq(s, 1, Len(s) - k)

\* s.replace(ch, "")
RECURSIVE RemoveChar(_, _)
RemoveChar(s, ch) ==
    IF s = <<>> THEN <<>>
    ELSE IF Head(s) = ch THEN RemoveChar(Tail(s), ch)
         ELSE <<Head(s)>> \o RemoveChar(Tail(s), ch)

\* index of the first occurrence of ch in s (s holds ch)
FirstIndex(s, ch) == CHOOSE i \in 1..Len(s) : s[i] = ch /\ \A j \in 1..(i - 1) : s[j] # ch

\* s.split(ch, 1) for s holding ch: <<before, after>>
SplitOnce(s, ch) ==
    LET i == FirstIndex(s, ch)
    IN  <<SubSeq(s, 1, i - 1), SubSeq(s, i + 1, Len(s))>>

\* the code point of a character, for the comparison of two strings
CharRank(c) ==
    IF \E i \in 1..Len(UpperChars) : UpperChars[i] = c
    THEN 64 + (CHOOSE i \in 1..Len(UpperChars) : UpperChars[i] = c)
    ELSE IF \E i \in 1..Len(LowerChars) : LowerChars[i] = c
         THEN 96 + (CHOOSE i \in 1..Len(LowerChars) : LowerChars[i] = c)
         ELSE IF \E i \in 1..Len(DigitChars) : DigitChars[i] = c
              THEN 47 + (CHOOSE i \in 1..Len(DigitChars) : DigitChars[i] = c)
              ELSE IF c = "_" THEN 95 ELSE IF c = "-" THEN 45 ELSE IF c = "." THEN 46 ELSE 32


(***************************************************************************)
(* Levenshtein distance, row by row as the source computes it             *)
(***************************************************************************)
\* the inner loop over s2 for one character c1 of s1: builds current_row,
\* which holds j entries when s2[j] is visited and is complete when it is as
\* long as previous_row (Len(s2) + 1 entries)
RECURSIVE LevRow(_, _, _, _, _)
LevRow(c1, s2, previous_row, current_row, j) ==
    IF Len(current_row) = Len(previous_row) THEN current_row
    ELSE LET insertions    == previous_row[j + 1] + 1
             deletions     == current_row[j] + 1
             substitutions == previous_row[j] + (IF c1 # s2[j] THEN 1 ELSE 0)
         IN  LevRow(c1, s2, previous_row,
                    Append(current_row, Min2(insertions, Min2(deletions, substitutions))),
                    j + 1)

\* the outer loop over s1: previous_row after the first i characters of s1
RECURSIVE LevRows(_, _, _)
LevRows(s1, s2, i) ==
    IF i = 0 THEN [k \in 1..(Len(s2) + 1) |-> k - 1]
    ELSE LevRow(s1[i], s2, LevRows(s1, s2, i - 1), <<i>>, 1)

levenshtein_distance(a, b) ==
    LET s1 == IF Len(a) < Len(b) THEN b ELSE a
        s2 == IF Len(a) < Len(b) THEN a ELSE b
    IN  IF Len(s2) = 0 THEN Len(s1)
        ELSE LevRows(s1, s2, Len(s1))[Len(s2) + 1]

(***************************************************************************)
(* Rationals <<n, d>> with d > 0                                           *)
(***************************************************************************)
\* r >= a/b
RatGE(r, a, b) == r[1] * b >= a * r[2]
\* r > a/b
RatGT(r, a, b) == r[1] * b > a * r[2]
\* r < a/b
RatLT(r, a, b) == r[1] * b < a * r[2]
\* r1 >= r2
RatGEq(r1, r2) == r1[1] * r2[2] >= r2[1] * r1[2]
RatEq(r1, r2) == r1[1] * r2[2] = r2[1] * r1[2]
RatMax(r1, r2) == IF RatGEq(r1, r2) THEN r1 ELSE r2



\* the value Python's None stands for where a string is expected
NoneStr == <<"#None">>

\* "if x" on a string: non-empty
Truthy(s) == s # <<>> /\ s # NoneStr

\* dict.get(key, default) on a dict kept as a sequence of <<key, value>> in
\* insertion order
DictHas(dict, key) == \E i \in 1..Len(dict) : dict[i][1] = key
DictGet(dict, key, default) ==
    IF DictHas(dict, key)
    THEN dict[CHOOSE i \in 1..Len(dict) : dict[i][1] = key][2]
    ELSE default

\* an Optional argument or field: None, or the value v as Some(v)
None == <<>>
Some(v) == <<v>>
Value(optional) == optional[1]

\* x in list
InList(x, list) == \E i \in 1..Len(list) : list[i] = x

(***************************************************************************)
(* EnhancedRelationshipMatcher (examples/enhanced_relationship_fix.py)     *)
(***************************************************************************)
Matcher_tpch_entity_mappings ==
    << <<<<"C","U","S","T">>,   <<<<"C","U","S","T","O","M","E","R">>, <<"C","U","S","T","O","M","E","R","S">>>> >>,
       <<<<"S","U","P","P">>,   <<<<"S","U","P","P","L","I","E","R">>, <<"S","U","P","P","L","I","E","R","S">>>> >>,
       <<<<"P","A","R","T">>,   <<<<"P","A","R","T">>, <<"P","A","R","T","S">>>> >>,
       <<<<"O","R","D","E","R">>,  <<<<"O","R","D","E","R","S">>, <<"O","R","D","E","R">>>> >>,
       <<<<"N","A","T","I","O","N">>, <<<<"N","A","T","I","O","N">>, <<"N","A","T","I","O","N","S">>>> >>,
       <<<<"R","E","G","I","O","N">>, <<<<"R","E","G","I","O","N">>, <<"R","E","G","I","O","N","S">>>> >>,
       <<<<"L","I","N","E">>,   <<<<"L","I","N","E","I","T","E","M">>, <<"L","I","N","E","I","T","E","M","S">>>> >> >>

\* the reverse mapping built in __init__: full name -> abbreviation; a later
\* entry overwrites an earlier one
Matcher_entity_to_abbreviation(name) ==
    LET hits == {i \in 1..Len(Matcher_tpch_entity_mappings) :
                    InList(name, Matcher_tpch_entity_mappings[i][2])}
    IN  IF hits = {} THEN NoneStr
        ELSE Matcher_tpch_entity_mappings[CHOOSE i \in hits : \A j \in hits : j <= i][1]

\* (fk entity, pk entity, boost), in dict order
Matcher_business_patterns ==
    << <<<<"C","U","S","T","O","M","E","R">>, <<"O","R","D","E","R">>,    Float(25, 100)>>,
       <<<<"O","R","D","E","R">>,    <<"L","I","N","E","I","T","E","M">>, Float(30, 100)>>,
       <<<<"P","A","R","T">>,     <<"L","I","N","E","I","T","E","M">>, Float(20, 100)>>,
       <<<<"S","U","P","P","L","I","E","R">>, <<"L","I","N","E","I","T","E","M">>, Float(20, 100)>>,
       <<<<"N","A","T","I","O","N">>,   <<"C","U","S","T","O","M","E","R">>, Float(15, 100)>>,
       <<<<"N","A","T","I","O","N">>,   <<"S","U","P","P","L","I","E","R">>, Float(15, 100)>>,
       <<<<"R","E","G","I","O","N">>,   <<"N","A","T","I","O","N">>,   Float(20, 100)>> >>

Matcher_suffixes == <<<<"K","E","Y">>, <<"I","D">>, <<"N","U","M">>, <<"N","O">>>>

\* strips the first suffix of the list that the string ends with
StripFirstSuffix(core_part, suffixes) ==
    LET hits == {i \in 1..Len(suffixes) : EndsWith(core_part, suffixes[i])}
    IN  IF hits = {} THEN core_part
        ELSE DropLast(core_part, Len(suffixes[CHOOSE i \in hits : \A j \in hits : i <= j]))

Matcher_extract_core_entity(column_name) ==
    LET core_part ==
            IF HasChar(column_name, "_")
            THEN LET parts == SplitOnce(column_name, "_")
                 IN  IF Len(parts[1]) <= 2 THEN parts[2] ELSE column_name
            ELSE column_name
    IN  StripFirstSuffix(core_part, Matcher_suffixes)

Matcher_are_entity_variants(entity1, entity2) ==
    IF ~Truthy(entity1) \/ ~Truthy(entity2) THEN FALSE
    ELSE LET entity1_variants == DictGet(Matcher_tpch_entity_mappings, entity1, <<entity1>>)
             entity2_variants == DictGet(Matcher_tpch_entity_mappings, entity2, <<entity2>>)
             abbrev1 == Matcher_entity_to_abbreviation(entity1)
             abbrev2 == Matcher_entity_to_abbreviation(entity2)
         IN  \/ InList(entity1, entity2_variants)
             \/ InList(entity2, entity1_variants)
             \/ (Truthy(abbrev1) /\ abbrev1 = entity2)
             \/ (Truthy(abbrev2) /\ abbrev2 = entity1)

Matcher_levenshtein_similarity(s1, s2) ==
    LET norm1 == RemoveChar(RemoveChar(s1, "_"), "-")
        norm2 == RemoveChar(RemoveChar(s2, "_"), "-")
        max_len == Max2(Len(norm1), Len(norm2))
    IN  IF norm1 = norm2 THEN Float(95, 100)
        ELSE IF max_len = 0 THEN FloatZero
        ELSE LET distance == levenshtein_distance(norm1, norm2)
                 similarity == FloatSub(Float(1, 1), Float(distance, max_len))
             IN  FloatMax(FloatZero, similarity)

Matcher_enhanced_name_similarity(name1, name2) ==
    IF ~Truthy(name1) \/ ~Truthy(name2) THEN FloatZero
    ELSE LET name1_upper == Upper(name1)
             name2_upper == Upper(name2)
             core1 == Matcher_extract_core_entity(name1_upper)
             core2 == Matcher_extract_core_entity(name2_upper)
         IN  IF name1_upper = name2_upper THEN Float(1, 1)
             ELSE IF core1 = core2 /\ Truthy(core1) THEN Float(95, 100)
             ELSE IF Matcher_are_entity_variants(core1, core2) THEN Float(90, 100)
             ELSE Matcher_levenshtein_similarity(name1_upper, name2_upper)

Matcher_extract_table_entity(table_name) ==
    IF EndsWith(table_name, <<"S">>) /\ Len(table_name) > 3
       /\ Matcher_entity_to_abbreviation(DropLast(table_name, 1)) # NoneStr
    THEN DropLast(table_name, 1)
    ELSE table_name

Matcher_standard_suffix_match(fk_column, pk_column) ==
    IF EndsWith(fk_column, <<"_">> \o pk_column)
    THEN Len(fk_column) - (Len(pk_column) + 1) >= 2
    ELSE IF StartsWith(fk_column, pk_column \o <<"_">>)
    THEN Len(fk_column) - (Len(pk_column) + 1) >= 1
    ELSE IF IsSubstr(pk_column, fk_column) /\ pk_column # fk_column
    THEN Len(pk_column) >= 3
    ELSE FALSE

Matcher_enhanced_suffix_match(fk_column, pk_column, pk_table) ==
    LET fk_upper == Upper(fk_column)
        pk_upper == Upper(pk_column)
        pk_table_upper == Upper(pk_table)
        prefixed == HasChar(fk_upper, "_") /\ HasChar(pk_upper, "_")
        fk_core == SplitOnce(fk_upper, "_")[2]
        pk_core == SplitOnce(pk_upper, "_")[2]
        fk_entity == Matcher_extract_core_entity(fk_core)
        pk_entity == Matcher_extract_core_entity(pk_core)
    IN  IF fk_upper = pk_upper THEN TRUE
        ELSE IF prefixed /\ fk_core = pk_core THEN TRUE
        ELSE IF prefixed /\ Matcher_are_entity_variants(fk_entity, pk_entity)
                /\ Matcher_are_entity_variants(pk_entity,
                                               Matcher_extract_table_entity(pk_table_upper))
        THEN TRUE
        ELSE Matcher_standard_suffix_match(fk_upper, pk_upper)

\* the boost of the first pattern of the dict that matches
Matcher_get_business_relationship_boost(fk_table, pk_table) ==
    LET fk_entity == Matcher_extract_table_entity(Upper(fk_table))
        pk_entity == Matcher_extract_table_entity(Upper(pk_table))
        hit(i) == LET p == Matcher_business_patterns[i]
                  IN  \/ (fk_entity = p[1] /\ pk_entity = p[2])
                      \/ (Matcher_are_entity_variants(fk_entity, p[1])
                          /\ Matcher_are_entity_variants(pk_entity, p[2]))
        hits == {i \in 1..Len(Matcher_business_patterns) : hit(i)}
    IN  IF hits = {} THEN FloatZero
        ELSE Matcher_business_patterns[CHOOSE i \in hits : \A j \in hits : i <= j][3]

\* calculate_enhanced_confidence, factor 2: the column name similarity
Matcher_add_similarity(confidence, similarity) ==
    IF FloatGE(similarity, Float(9, 10)) THEN FloatAdd(confidence, Float(25, 100))
    ELSE IF FloatGE(similarity, Float(7, 10)) THEN FloatAdd(confidence, Float(15, 100))
    ELSE IF FloatGE(similarity, Float(5, 10)) THEN FloatAdd(confidence, Float(5, 100))
    ELSE confidence

\* factor 3: the suffix match
Matcher_add_suffix(confidence, suffix_match) ==
    IF suffix_match THEN FloatAdd(confidence, Float(2, 10)) ELSE confidence

\* factor 4: the business relationship pattern
Matcher_add_business(confidence, business_boost) ==
    IF FloatGT(business_boost, FloatZero) THEN FloatAdd(confidence, business_boost)
    ELSE confidence

\* the penalty of a low column name similarity
Matcher_subtract_penalty(confidence, similarity) ==
    IF FloatLT(similarity, Float(3, 10)) THEN FloatSub(confidence, Float(2, 10))
    ELSE confidence

\* the factors of calculate_enhanced_confidence, added to 0.0 in the order
\* of the source (factor 1, the primary key metadata, first; factor 5, the
\* sample overlap, adds nothing at its default 0.0), and the clamp
Matcher_confidence_of(similarity, suffix_match, business_boost) ==
    FloatMin(Float(1, 1), FloatMax(FloatZero, Matcher_subtract_penalty(Matcher_add_business(Matcher_add_suffix(Matcher_add_similarity(FloatAdd(FloatZero, Float(4, 10)), similarity), suffix_match), business_boost), similarity)))

\* the confidence (has_pk_metadata = True, sample_overlap = 0.0, the defaults
\* find_best_matches calls it with); the factor texts are not kept
Matcher_calculate_enhanced_confidence(fk_column, pk_column, fk_table, pk_table) ==
    Matcher_confidence_of(Matcher_enhanced_name_similarity(fk_column, pk_column),
                          Matcher_enhanced_suffix_match(fk_column, pk_column, pk_table),
                          Matcher_get_business_relationship_boost(fk_table, pk_table))


\* the value of best_match before any candidate qualified
NoMatch == [none |-> TRUE]

MatchCandidate(fk_col, fk_table, pk_col, pk_table, confidence) ==
    [fk_column |-> fk_col, pk_column |-> pk_col,
     fk_table |-> fk_table, pk_table |-> pk_table,
     similarity_score |-> Matcher_enhanced_name_similarity(fk_col, pk_col),
     base_confidence |-> confidence]

\* the inner loop of find_best_matches over pk_candidates, from index i on
RECURSIVE Matcher_best_over_pks(_, _, _, _, _, _)
Matcher_best_over_pks(fk, pk_candidates, min_confidence, i, best_match, best_confidence) ==
    IF i > Len(pk_candidates) THEN best_match
    ELSE LET pk == pk_candidates[i]
             confidence == Matcher_calculate_enhanced_confidence(fk[1], pk[1], fk[2], pk[2])
         IN  IF FloatGE(confidence, min_confidence) /\ FloatGT(confidence, best_confidence)
             THEN Matcher_best_over_pks(fk, pk_candidates, min_confidence, i + 1,
                      MatchCandidate(fk[1], fk[2], pk[1], pk[2], confidence), confidence)
             ELSE Matcher_best_over_pks(fk, pk_candidates, min_confidence, i + 1,
                      best_match, best_confidence)

\* the outer loop over fk_candidates, from index i on
RECURSIVE Matcher_matches_from(_, _, _, _)
Matcher_matches_from(fk_candidates, pk_candidates, min_confidence, i) ==
    IF i > Len(fk_candidates) THEN <<>>
    ELSE LET best_match == Matcher_best_over_pks(fk_candidates[i], pk_candidates,
                                                 min_confidence, 1, NoMatch, FloatZero)
             rest == Matcher_matches_from(fk_candidates, pk_candidates, min_confidence, i + 1)
         IN  IF best_match # NoMatch THEN <<best_match>> \o rest ELSE rest

\* find_best_matches; fk_candidates and pk_candidates are lists of
\* <<column, table>>
Matcher_find_best_matches(fk_candidates, pk_candidates, min_confidence) ==
    Matcher_matches_from(fk_candidates, pk_candidates, min_confidence, 1)


(***************************************************************************)
(* More on rationals: arithmetic in lowest terms                           *)
(***************************************************************************)
RECURSIVE GCD(_, _)
GCD(a, b) == IF b = 0 THEN a ELSE GCD(b, a % b)
Abs(x) == IF x < 0 THEN -x ELSE x
\* the rational n/d (d # 0) in lowest terms with a positive denominator
Rat(n, d) ==
    LET g == GCD(Abs(n), Abs(d))
        sgn == IF d < 0 THEN -1 ELSE 1
    IN  <<sgn * (n \div g), sgn * (d \div g)>>
RatAdd(r1, r2) == Rat(r1[1] * r2[2] + r2[1] * r1[2], r1[2] * r2[2])
RatSub(r1, r2) == Rat(r1[1] * r2[2] - r2[1] * r1[2], r1[2] * r2[2])
RatMul(r1, r2) == Rat(r1[1] * r2[1], r1[2] * r2[2])
RatAbs(r) == <<Abs(r[1]), r[2]>>
RatMin(r1, r2) == IF RatGEq(r2, r1) THEN r1 ELSE r2
RatGt(r1, r2) == r1[1] * r2[2] > r2[1] * r1[2]

(***************************************************************************)
(* AdvancedRelationshipDiscovery                                           *)
(* (research/research_based_relationship_discovery.py)                     *)
(***************************************************************************)
\* naming_patterns: categories in dict order, each a list of
\* <<canonical, variants>> in dict order
Adv_naming_patterns ==
    << <<"tpch",
         << <<<<"C","U","S","T","O","M","E","R">>, <<<<"C","U","S","T">>, <<"C","U","S","T","O","M","E","R">>, <<"C","U","S","T","O","M","E","R","S">>>> >>,
            <<<<"S","U","P","P","L","I","E","R">>, <<<<"S","U","P","P">>, <<"S","U","P","P","L","I","E","R">>, <<"S","U","P","P","L","I","E","R","S">>>> >>,
            <<<<"P","A","R","T">>,     <<<<"P","A","R","T">>, <<"P","A","R","T","S">>>> >>,
            <<<<"O","R","D","E","R","S">>,   <<<<"O","R","D","E","R">>, <<"O","R","D","E","R","S">>>> >>,
            <<<<"L","I","N","E","I","T","E","M">>, <<<<"L","I","N","E">>, <<"L","I","N","E","I","T","E","M">>, <<"L","I","N","E","I","T","E","M","S">>>> >>,
            <<<<"N","A","T","I","O","N">>,   <<<<"N","A","T","I","O","N">>, <<"N","A","T","I","O","N","S">>>> >>,
            <<<<"R","E","G","I","O","N">>,   <<<<"R","E","G","I","O","N">>, <<"R","E","G","I","O","N","S">>>> >> >> >>,
       <<"business",
         << <<<<"C","U","S","T","O","M","E","R">>, <<<<"C","L","I","E","N","T">>, <<"C","U","S","T","O","M","E","R">>, <<"C","U","S","T","O","M","E","R","S">>, <<"C","U","S","T">>>> >>,
            <<<<"P","R","O","D","U","C","T">>,  <<<<"P","R","O","D","U","C","T">>, <<"P","R","O","D","U","C","T","S">>, <<"I","T","E","M">>, <<"I","T","E","M","S">>>> >>,
            <<<<"O","R","D","E","R">>,    <<<<"O","R","D","E","R">>, <<"O","R","D","E","R","S">>, <<"P","U","R","C","H","A","S","E">>, <<"P","U","R","C","H","A","S","E","S">>>> >>,
            <<<<"E","M","P","L","O","Y","E","E">>, <<<<"E","M","P","L","O","Y","E","E">>, <<"E","M","P","L","O","Y","E","E","S">>, <<"S","T","A","F","F">>, <<"E","M","P">>>> >>,
            <<<<"C","A","T","E","G","O","R","Y">>, <<<<"C","A","T","E","G","O","R","Y">>, <<"C","A","T","E","G","O","R","I","E","S">>, <<"C","A","T">>>> >>,
            <<<<"L","O","C","A","T","I","O","N">>, <<<<"L","O","C","A","T","I","O","N">>, <<"L","O","C","A","T","I","O","N","S">>, <<"P","L","A","C","E">>, <<"A","D","D","R","E","S","S">>>> >> >> >>,
       <<"technical",
         << <<<<"U","S","E","R">>,    <<<<"U","S","E","R">>, <<"U","S","E","R","S">>, <<"A","C","C","O","U","N","T">>, <<"A","C","C","O","U","N","T","S">>>> >>,
            <<<<"S","E","S","S","I","O","N">>, <<<<"S","E","S","S","I","O","N">>, <<"S","E","S","S","I","O","N","S">>>> >>,
            <<<<"L","O","G">>,     <<<<"L","O","G">>, <<"L","O","G","S">>, <<"E","V","E","N","T">>, <<"E","V","E","N","T","S">>>> >>,
            <<<<"C","O","N","F","I","G">>,  <<<<"C","O","N","F","I","G">>, <<"C","O","N","F","I","G","U","R","A","T","I","O","N">>, <<"S","E","T","T","I","N","G">>, <<"S","E","T","T","I","N","G","S">>>> >> >> >> >>

\* domain_mappings: <<entity1, entity2, score>> in dict order
Adv_domain_mappings ==
    << <<<<"C","U","S","T","O","M","E","R">>, <<"O","R","D","E","R","S">>, Float(95, 100)>>,
       <<<<"O","R","D","E","R","S">>, <<"L","I","N","E","I","T","E","M">>, Float(95, 100)>>,
       <<<<"P","A","R","T">>, <<"L","I","N","E","I","T","E","M">>, Float(90, 100)>>,
       <<<<"S","U","P","P","L","I","E","R">>, <<"L","I","N","E","I","T","E","M">>, Float(90, 100)>>,
       <<<<"N","A","T","I","O","N">>, <<"C","U","S","T","O","M","E","R">>, Float(85, 100)>>,
       <<<<"N","A","T","I","O","N">>, <<"S","U","P","P","L","I","E","R">>, Float(85, 100)>>,
       <<<<"R","E","G","I","O","N">>, <<"N","A","T","I","O","N">>, Float(90, 100)>>,
       <<<<"L","I","N","E","I","T","E","M">>, <<"O","R","D","E","R","S">>, Float(95, 100)>>,
       <<<<"L","I","N","E","I","T","E","M">>, <<"P","A","R","T">>, Float(90, 100)>>,
       <<<<"L","I","N","E","I","T","E","M">>, <<"S","U","P","P","L","I","E","R">>, Float(90, 100)>>,
       <<<<"C","U","S","T","O","M","E","R">>, <<"N","A","T","I","O","N">>, Float(85, 100)>>,
       <<<<"S","U","P","P","L","I","E","R">>, <<"N","A","T","I","O","N">>, Float(85, 100)>>,
       <<<<"N","A","T","I","O","N">>, <<"R","E","G","I","O","N">>, Float(90, 100)>>,
       <<<<"C","A","T","E","G","O","R","Y">>, <<"P","R","O","D","U","C","T">>, Float(80, 100)>>,
       <<<<"D","E","P","A","R","T","M","E","N","T">>, <<"E","M","P","L","O","Y","E","E">>, Float(75, 100)>>,
       <<<<"U","S","E","R">>, <<"S","E","S","S","I","O","N">>, Float(85, 100)>>,
       <<<<"L","O","C","A","T","I","O","N">>, <<"E","V","E","N","T">>, Float(60, 100)>>,
       <<<<"C","O","N","F","I","G">>, <<"U","S","E","R">>, Float(55, 100)>> >>

Adv_core_suffixes == <<<<"K","E","Y">>, <<"I","D">>, <<"N","U","M">>, <<"N","O">>, <<"C","O","D","E">>>>

\* _extract_entity_core: drops a first part of at most 3 characters, then
\* the first suffix of the list that the rest ends with
Adv_extract_entity_core(column_name) ==
    LET remaining ==
            IF HasChar(column_name, "_")
            THEN LET parts == SplitOnce(column_name, "_")
                 IN  IF Len(parts[1]) <= 3 THEN parts[2] ELSE column_name
            ELSE column_name
    IN  StripFirstSuffix(remaining, Adv_core_suffixes)

\* _are_domain_entities_related
Adv_are_domain_entities_related(entity1, entity2, table_name) ==
    \E c \in 1..Len(Adv_naming_patterns) :
        \E k \in 1..Len(Adv_naming_patterns[c][2]) :
            LET canonical == Adv_naming_patterns[c][2][k][1]
                variants == Adv_naming_patterns[c][2][k][2]
                entity1_matches == entity1 = canonical \/ InList(entity1, variants)
                entity2_matches == entity2 = canonical \/ InList(entity2, variants)
                table_matches == table_name = canonical \/ InList(table_name, variants)
            IN  (entity1_matches /\ entity2_matches) \/ (entity1_matches /\ table_matches)

\* _matches_tpch_pattern
Adv_matches_tpch_pattern(fk_col, pk_col, pk_table) ==
    IF HasChar(fk_col, "_") /\ HasChar(pk_col, "_")
    THEN LET fk_entity == SplitOnce(fk_col, "_")[2]
             pk_entity == SplitOnce(pk_col, "_")[2]
             fk_core == Adv_extract_entity_core(fk_entity)
             pk_core == Adv_extract_entity_core(pk_entity)
             tpch_mappings == Adv_naming_patterns[1][2]
         IN  \/ fk_entity = pk_entity
             \/ \E k \in 1..Len(tpch_mappings) :
                    \/ InList(fk_core, tpch_mappings[k][2]) /\ pk_table = tpch_mappings[k][1]
                    \/ InList(pk_core, tpch_mappings[k][2]) /\ pk_table = tpch_mappings[k][1]
    ELSE FALSE

\* _calculate_prefix_suffix_similarity
Adv_calculate_prefix_suffix_similarity(str1, str2) ==
    LET m == Min2(Len(str1), Len(str2))
        common_prefix_len ==
            CHOOSE k \in 0..m :
                /\ \A i \in 1..k : str1[i] = str2[i]
                /\ k < m => str1[k + 1] # str2[k + 1]
        common_suffix_len ==
            CHOOSE k \in 0..m :
                /\ \A i \in 1..k : str1[Len(str1) + 1 - i] = str2[Len(str2) + 1 - i]
                /\ k < m => str1[Len(str1) - k] # str2[Len(str2) - k]
        total_common == common_prefix_len + common_suffix_len
        max_length == Max2(Len(str1), Len(str2))
    IN  IF max_length = 0 THEN FloatZero
        ELSE FloatMin(Float(1, 1), Float(total_common, max_length))

\* _calculate_edit_distance_similarity
Adv_calculate_edit_distance_similarity(str1, str2) ==
    LET norm1 == RemoveChar(str1, "_")
        norm2 == RemoveChar(str2, "_")
    IN  IF norm1 = <<>> \/ norm2 = <<>> THEN FloatZero
        ELSE FloatSub(Float(1, 1), Float(levenshtein_distance(norm1, norm2),
                                         Max2(Len(norm1), Len(norm2))))

\* calculate_name_similarity
Adv_calculate_name_similarity(fk_col, pk_col, fk_table, pk_table) ==
    LET fk_col_upper == Upper(fk_col)
        pk_col_upper == Upper(pk_col)
        pk_table_upper == Upper(pk_table)
        fk_core == Adv_extract_entity_core(fk_col_upper)
        pk_core == Adv_extract_entity_core(pk_col_upper)
        prefix_score == Adv_calculate_prefix_suffix_similarity(fk_col_upper, pk_col_upper)
        edit_similarity == Adv_calculate_edit_distance_similarity(fk_col_upper, pk_col_upper)
    IN  IF fk_col_upper = pk_col_upper THEN Float(1, 1)
        ELSE IF fk_core = pk_core /\ fk_core # <<>> THEN Float(19, 20)
        ELSE IF Adv_are_domain_entities_related(fk_core, pk_core, pk_table_upper) THEN Float(9, 10)
        ELSE IF Adv_matches_tpch_pattern(fk_col_upper, pk_col_upper, pk_table_upper) THEN Float(22, 25)
        ELSE IF FloatGT(prefix_score, Float(7, 10)) THEN prefix_score
        ELSE FloatMax(prefix_score, edit_similarity)

\* re.sub(r'\([^)]*\)', '', s): removes every parenthesised group
RECURSIVE RemoveParenGroups(_)
RemoveParenGroups(s) ==
    IF s = <<>> THEN <<>>
    ELSE IF Head(s) = "(" /\ HasChar(Tail(s), ")")
         THEN RemoveParenGroups(SubSeq(s, FirstIndex(s, ")") + 1, Len(s)))
         ELSE <<Head(s)>> \o RemoveParenGroups(Tail(s))

\* number of blanks s starts with
LeadingBlanks(s) ==
    CHOOSE k \in 0..Len(s) : (\A i \in 1..k : s[i] = " ") /\ (k < Len(s) => s[k + 1] # " ")

\* str.strip() for blanks
Strip(s) ==
    LET a == LeadingBlanks(s)
        rev == [i \in 1..Len(s) |-> s[Len(s) + 1 - i]]
        b == LeadingBlanks(rev)
    IN  IF a = Len(s) THEN <<>> ELSE SubSeq(s, a + 1, Len(s) - b)

\* length of the match of \s+(NOT\s+NULL|NULL) at the start of s, 0 if none
NullClauseLen(s) ==
    LET k == LeadingBlanks(s)
        rest == SubSeq(s, k + 1, Len(s))
        after_not == SubSeq(rest, 4, Len(rest))
        k2 == LeadingBlanks(after_not)
    IN  IF k = 0 THEN 0
        ELSE IF StartsWith(rest, <<"N","O","T">>) /\ k2 > 0
                /\ StartsWith(SubSeq(after_not, k2 + 1, Len(after_not)), <<"N","U","L","L">>)
             THEN k + 3 + k2 + 4
        ELSE IF StartsWith(rest, <<"N","U","L","L">>) THEN k + 4
        ELSE 0

\* re.sub(r'\s+(NOT\s+NULL|NULL)', '', s)
RECURSIVE RemoveNullClauses(_)
RemoveNullClauses(s) ==
    IF s = <<>> THEN <<>>
    ELSE IF NullClauseLen(s) > 0
         THEN RemoveNullClauses(SubSeq(s, NullClauseLen(s) + 1, Len(s)))
         ELSE <<Head(s)>> \o RemoveNullClauses(Tail(s))

\* type_mappings of _extract_base_type
Adv_type_mappings ==
    << <<<<"I","N","T">>, <<"I","N","T","E","G","E","R">>>>, <<<<"B","I","G","I","N","T">>, <<"N","U","M","B","E","R">>>>, <<<<"D","E","C","I","M","A","L">>, <<"N","U","M","B","E","R">>>>,
       <<<<"N","U","M","E","R","I","C">>, <<"N","U","M","B","E","R">>>>, <<<<"F","L","O","A","T">>, <<"N","U","M","B","E","R">>>>, <<<<"D","O","U","B","L","E">>, <<"N","U","M","B","E","R">>>>,
       <<<<"V","A","R","C","H","A","R">>, <<"S","T","R","I","N","G">>>>, <<<<"C","H","A","R">>, <<"S","T","R","I","N","G">>>>, <<<<"T","E","X","T">>, <<"S","T","R","I","N","G">>>>,
       <<<<"T","I","M","E","S","T","A","M","P">>, <<"D","A","T","E">>>>, <<<<"D","A","T","E","T","I","M","E">>, <<"D","A","T","E">>>> >>

\* _extract_base_type
Adv_extract_base_type(type_str) ==
    IF type_str = <<>> THEN <<"U","N","K","N","O","W","N">>
    ELSE LET clean_type == Strip(RemoveNullClauses(Strip(RemoveParenGroups(Upper(type_str)))))
         IN  DictGet(Adv_type_mappings, clean_type, clean_type)

Adv_base_types ==
    <<<<"N","U","M","B","E","R">>, <<"I","N","T","E","G","E","R">>, <<"B","I","G","I","N","T">>, <<"S","T","R","I","N","G">>, <<"V","A","R","C","H","A","R">>, <<"T","E","X","T">>,
      <<"D","A","T","E">>, <<"D","A","T","E","T","I","M","E">>, <<"T","I","M","E","S","T","A","M","P">>>>

Adv_compatible_types ==
    << <<<<"N","U","M","B","E","R">>, <<"I","N","T","E","G","E","R">>>>, <<<<"I","N","T","E","G","E","R">>, <<"N","U","M","B","E","R">>>>,
       <<<<"N","U","M","B","E","R">>, <<"B","I","G","I","N","T">>>>, <<<<"B","I","G","I","N","T">>, <<"N","U","M","B","E","R">>>>,
       <<<<"S","T","R","I","N","G">>, <<"V","A","R","C","H","A","R">>>>, <<<<"V","A","R","C","H","A","R">>, <<"S","T","R","I","N","G">>>>,
       <<<<"S","T","R","I","N","G">>, <<"T","E","X","T">>>>, <<<<"T","E","X","T">>, <<"S","T","R","I","N","G">>>>,
       <<<<"D","A","T","E">>, <<"D","A","T","E","T","I","M","E">>>>, <<<<"D","A","T","E","T","I","M","E">>, <<"D","A","T","E">>>>,
       <<<<"D","A","T","E">>, <<"T","I","M","E","S","T","A","M","P">>>>, <<<<"T","I","M","E","S","T","A","M","P">>, <<"D","A","T","E">>>> >>

\* calculate_type_compatibility: the type matrix holds 1.0 for
\* equal base types and 0.9 for the compatible pairs, and 0.0 is the default
Adv_calculate_type_compatibility(fk_type, pk_type) ==
    LET fk_base == Adv_extract_base_type(fk_type)
        pk_base == Adv_extract_base_type(pk_type)
    IN  IF InList(<<fk_base, pk_base>>, Adv_compatible_types) THEN Float(9, 10)
        ELSE IF fk_base = pk_base /\ InList(fk_base, Adv_base_types) THEN Float(1, 1)
        ELSE FloatZero

\* A sample value is <<kind, text>>; None is the value below.  str(v) is the
\* text, so the int 1 and the string "1" are different values with one str().
NoneValue == <<"NoneType", "None">>
StrOf(v) == v[2]
SetOf(values) == {values[i] : i \in 1..Len(values)}

\* calculate_value_containment
Adv_calculate_value_containment(fk_values, pk_values) ==
    IF fk_values = <<>> \/ pk_values = <<>> THEN Float(1, 2)
    ELSE LET fk_set == {StrOf(v) : v \in SetOf(fk_values) \ {NoneValue}}
             pk_set == {StrOf(v) : v \in SetOf(pk_values) \ {NoneValue}}
         IN  IF fk_set = {} THEN Float(1, 2)
             ELSE IF pk_set = {} THEN FloatZero
             ELSE Float(Cardinality(fk_set \cap pk_set), Cardinality(fk_set))

\* calculate_statistical_score: the mean of the uniqueness,
\* cardinality and NULL scores
Adv_calculate_statistical_score(fk_values, pk_values) ==
    IF fk_values = <<>> \/ pk_values = <<>> THEN Float(1, 2)
    ELSE LET fk_unique_ratio == Float(Cardinality(SetOf(fk_values)), Len(fk_values))
             pk_unique_ratio == Float(Cardinality(SetOf(pk_values)), Len(pk_values))
             uniqueness_score ==
                 IF FloatGT(pk_unique_ratio, Float(8, 10))
                 THEN FloatSub(Float(1, 1), FloatAbs(FloatSub(fk_unique_ratio, Float(1, 2))))
                 ELSE Float(3, 10)
             cardinality_ratio == Float(Len(fk_values), Len(pk_values))
             cardinality_score ==
                 IF FloatGE(cardinality_ratio, Float(1, 1)) THEN Float(1, 1) ELSE cardinality_ratio
             fk_null_ratio ==
                 Float(Cardinality({i \in 1..Len(fk_values) : fk_values[i] = NoneValue}),
                     Len(fk_values))
             null_score == FloatSub(Float(1, 1), FloatMin(fk_null_ratio, Float(1, 2)))
         IN  FloatMean(<<uniqueness_score, cardinality_score, null_score>>)

\* _table_matches_entity
Adv_table_matches_entity(table_name, entity) ==
    \E c \in 1..Len(Adv_naming_patterns) :
        /\ DictHas(Adv_naming_patterns[c][2], entity)
        /\ LET variants == DictGet(Adv_naming_patterns[c][2], entity, <<>>)
           IN  \/ InList(table_name, variants)
               \/ \E v \in 1..Len(variants) : IsSubstr(variants[v], table_name)

\* business_indicators of calculate_domain_knowledge_score
Adv_business_indicators ==
    << <<<<"C","U","S","T","O","M","E","R">>, <<<<"O","R","D","E","R">>, <<"P","U","R","C","H","A","S","E">>, <<"A","C","C","O","U","N","T">>>> >>,
       <<<<"P","R","O","D","U","C","T">>,  <<<<"O","R","D","E","R">>, <<"P","U","R","C","H","A","S","E">>, <<"I","N","V","E","N","T","O","R","Y">>>> >>,
       <<<<"S","U","P","P","L","I","E","R">>, <<<<"P","R","O","D","U","C","T">>, <<"I","N","V","E","N","T","O","R","Y">>, <<"P","U","R","C","H","A","S","E">>>> >>,
       <<<<"E","M","P","L","O","Y","E","E">>, <<<<"O","R","D","E","R">>, <<"T","A","S","K">>, <<"P","R","O","J","E","C","T">>>> >> >>

\* calculate_domain_knowledge_score: the first domain mapping
\* that applies, else 0.7 for a business indicator, else 0.1
Adv_calculate_domain_knowledge_score(fk_table, pk_table) ==
    LET fk_table_upper == Upper(fk_table)
        pk_table_upper == Upper(pk_table)
        hits == {i \in 1..Len(Adv_domain_mappings) :
                    \/ fk_table_upper = Adv_domain_mappings[i][1]
                       /\ pk_table_upper = Adv_domain_mappings[i][2]
                    \/ Adv_table_matches_entity(fk_table_upper, Adv_domain_mappings[i][1])
                       /\ Adv_table_matches_entity(pk_table_upper, Adv_domain_mappings[i][2])}
    IN  IF hits # {}
        THEN Adv_domain_mappings[CHOOSE i \in hits : \A j \in hits : i <= j][3]
        ELSE IF \E b \in 1..Len(Adv_business_indicators) :
                    /\ Adv_table_matches_entity(pk_table_upper, Adv_business_indicators[b][1])
                    /\ \E k \in 1..Len(Adv_business_indicators[b][2]) :
                           Adv_table_matches_entity(fk_table_upper, Adv_business_indicators[b][2][k])
             THEN Float(7, 10)
             ELSE Float(1, 10)

\* a weighted sum in which the statistical score counts against the candidate
Candidate_calculate_confidence_against(name_similarity, type_compatibility, value_containment, statistical_score, domain_knowledge_score) ==
    LET weighted_sum ==
            FloatAdd(FloatAdd(FloatAdd(FloatAdd(
                FloatMul(name_similarity, Float(30, 100)),
                FloatMul(type_compatibility, Float(20, 100))),
                FloatMul(value_containment, Float(25, 100))),
                FloatMul(FloatSub(Float(1, 1), statistical_score), Float(15, 100))),
                FloatMul(domain_knowledge_score, Float(10, 100)))
    IN  FloatMin(Float(1, 1), FloatMax(FloatZero, weighted_sum))

\* RelationshipCandidate._calculate_confidence: the weighted
\* sum of the five features, clamped to [0, 1]
Candidate_calculate_confidence(name_similarity, type_compatibility, value_containment, statistical_score, domain_knowledge_score) ==
    LET weighted_sum ==
            FloatAdd(FloatAdd(FloatAdd(FloatAdd(
                FloatMul(name_similarity, Float(30, 100)),
                FloatMul(type_compatibility, Float(20, 100))),
                FloatMul(value_containment, Float(25, 100))),
                FloatMul(statistical_score, Float(15, 100))),
                FloatMul(domain_knowledge_score, Float(10, 100)))
    IN  FloatMin(Float(1, 1), FloatMax(FloatZero, weighted_sum))

\* RelationshipCandidate(...): __post_init__ computes the confidence
RelationshipCandidate(fk_table, fk_column, pk_table, pk_column, name_similarity, type_compatibility, value_containment, statistical_score, domain_knowledge_score) ==
    [fk_table |-> fk_table, fk_column |-> fk_column,
     pk_table |-> pk_table, pk_column |-> pk_column,
     name_similarity |-> name_similarity,
     type_compatibility |-> type_compatibility,
     value_containment |-> value_containment,
     statistical_score |-> statistical_score,
     domain_knowledge_score |-> domain_knowledge_score,
     confidence |-> Candidate_calculate_confidence(name_similarity, type_compatibility,
                        value_containment, statistical_score, domain_knowledge_score),
     relationship_type |-> "*:1"]

\* sample_data is None (NoSamples) or a dict table -> (dict column -> values),
\* kept as sequences of <<key, value>>
NoSamples == <<>>

\* col.get('type', ''): a column definition is a dict with the key name and,
\* each of them optional, the keys type and is_primary_key
Adv_column_type(col) == IF "type" \in DOMAIN col THEN col.type ELSE <<>>

\* col.get('is_primary_key', False)
Adv_column_is_primary_key(col) == "is_primary_key" \in DOMAIN col /\ col.is_primary_key

\* _evaluate_candidate
Adv_evaluate_candidate(fk_table, fk_col, pk_table, pk_col, sample_data) ==
    LET fk_values == IF sample_data # NoSamples
                     THEN DictGet(DictGet(sample_data, fk_table, <<>>), fk_col.name, <<>>)
                     ELSE <<>>
        pk_values == IF sample_data # NoSamples
                     THEN DictGet(DictGet(sample_data, pk_table, <<>>), pk_col.name, <<>>)
                     ELSE <<>>
    IN  RelationshipCandidate(fk_table, fk_col.name, pk_table, pk_col.name,
            Adv_calculate_name_similarity(fk_col.name, pk_col.name, fk_table, pk_table),
            Adv_calculate_type_compatibility(Adv_column_type(fk_col), Adv_column_type(pk_col)),
            Adv_calculate_value_containment(fk_values, pk_values),
            Adv_calculate_statistical_score(fk_values, pk_values),
            Adv_calculate_domain_knowledge_score(fk_table, pk_table))

\* a gate that a single strong indicator satisfies
Adv_meets_quality_threshold_one(candidate) ==
    LET strong_indicators ==
            (IF FloatGE(candidate.type_compatibility, Float(9, 10)) THEN 1 ELSE 0)
          + (IF FloatGE(candidate.value_containment, Float(8, 10)) THEN 1 ELSE 0)
          + (IF FloatGE(candidate.domain_knowledge_score, Float(6, 10)) THEN 1 ELSE 0)
    IN  \/ FloatGE(candidate.name_similarity, Float(7, 10))
        \/ FloatGE(candidate.domain_knowledge_score, Float(8, 10))
        \/ strong_indicators >= 1

\* _meets_quality_threshold
Adv_meets_quality_threshold(candidate) ==
    LET strong_indicators ==
            (IF FloatGE(candidate.type_compatibility, Float(9, 10)) THEN 1 ELSE 0)
          + (IF FloatGE(candidate.value_containment, Float(8, 10)) THEN 1 ELSE 0)
          + (IF FloatGE(candidate.domain_knowledge_score, Float(6, 10)) THEN 1 ELSE 0)
    IN  \/ FloatGE(candidate.name_similarity, Float(7, 10))
        \/ FloatGE(candidate.domain_knowledge_score, Float(8, 10))
        \/ strong_indicators >= 2

\* _is_significantly_different
Adv_is_significantly_different(candidate1, candidate2) ==
    \/ candidate1.pk_table # candidate2.pk_table
    \/ FloatGT(FloatAbs(FloatSub(candidate1.name_similarity, candidate2.name_similarity)), Float(2, 10))

\* x placed behind the candidates of sorted that have at least its confidence
InsertByConfidence(sorted, x) ==
    LET k == Cardinality({i \in 1..Len(sorted) : FloatGE(sorted[i].confidence, x.confidence)})
    IN  SubSeq(sorted, 1, k) \o <<x>> \o SubSeq(sorted, k + 1, Len(sorted))

\* list.sort(key=confidence, reverse=True) on the first n elements: stable,
\* so that candidates of equal confidence keep their order
RECURSIVE SortByConfidence(_, _)
SortByConfidence(list, n) ==
    IF n = 0 THEN <<>>
    ELSE InsertByConfidence(SortByConfidence(list, n - 1), list[n])

\* the concatenation of a sequence of sequences
RECURSIVE Concat(_)
Concat(ss) == IF ss = <<>> THEN <<>> ELSE Head(ss) \o Concat(Tail(ss))

\* the candidates that one FK group contributes: its best candidate if it
\* passes the gate, and the others that are close, different and pass the gate
Adv_filter_group(group) ==
    LET sorted == SortByConfidence(group, Len(group))
        best_candidate == sorted[1]
        Also(candidate) ==
            /\ FloatGE(candidate.confidence, FloatSub(best_candidate.confidence, Float(1, 10)))
            /\ Adv_is_significantly_different(candidate, best_candidate)
            /\ Adv_meets_quality_threshold(candidate)
    IN  (IF Adv_meets_quality_threshold(best_candidate) THEN <<best_candidate>> ELSE <<>>)
        \o SelectSeq(Tail(sorted), Also)

\* _apply_intelligent_filtering: groups by (fk_table, fk_column) in the order
\* in which the keys first occur
Adv_apply_intelligent_filtering(candidates) ==
    LET Key(c) == <<c.fk_table, c.fk_column>>
        first == {i \in 1..Len(candidates) :
                     \A j \in 1..(i - 1) : Key(candidates[j]) # Key(candidates[i])}
        IsFirst(i) == i \in first
        firsts == SelectSeq([i \in 1..Len(candidates) |-> i], IsFirst)
    IN  Concat([g \in 1..Len(firsts) |->
            LET InGroup(c) == Key(c) = Key(candidates[firsts[g]])
            IN  Adv_filter_group(SelectSeq(candidates, InGroup))])

\* every column of a table definition offered as a PK column
Adv_pk_columns_all(table_def) == table_def.columns

\* the PK columns of a table definition
Adv_pk_columns(table_def) ==
    LET IsPk(col) == Adv_column_is_primary_key(col)
    IN  SelectSeq(table_def.columns, IsPk)

\* fk_table_def == pk_table_def: equality of the two dicts, which tells a
\* column without the key is_primary_key (or type) from a column that has
\* the key with the default value
Adv_same_definition(fk_table_def, pk_table_def) == fk_table_def = pk_table_def

\* the candidates of one pair of table definitions that reach min_confidence
Adv_pair_candidates(fk_table_def, pk_table_def, sample_data, min_confidence) ==
    LET fk_table == fk_table_def.table_name
        pk_table == pk_table_def.table_name
        fk_columns == fk_table_def.columns
        pk_columns == Adv_pk_columns(pk_table_def)
        Keep(candidate) == FloatGE(candidate.confidence, min_confidence)
    IN  Concat([f \in 1..Len(fk_columns) |->
            Concat([p \in 1..Len(pk_columns) |->
                IF fk_table = pk_table /\ fk_columns[f].name = pk_columns[p].name
                THEN <<>>
                ELSE SelectSeq(<<Adv_evaluate_candidate(fk_table, fk_columns[f],
                                     pk_table, pk_columns[p], sample_data)>>, Keep)])])

\* discover_relationships; tables is a list of [table_name, columns]
Adv_discover_relationships(tables, sample_data, min_confidence, max_candidates) ==
    LET candidates ==
            Concat([f \in 1..Len(tables) |->
                Concat([p \in 1..Len(tables) |->
                    IF Adv_same_definition(tables[f], tables[p]) THEN <<>>
                    ELSE Adv_pair_candidates(tables[f], tables[p], sample_data,
                                             min_confidence)])])
        filtered_candidates == Adv_apply_intelligent_filtering(candidates)
        sorted == SortByConfidence(filtered_candidates, Len(filtered_candidates))
    IN  SubSeq(sorted, 1, Min2(max_candidates, Len(sorted)))

(***************************************************************************)
(* AdvancedConfidenceScorer: the combination of the evidence scores        *)
(***************************************************************************)
\* evidence_weights, in the order in which
\* calculate_comprehensive_confidence fills evidence_scores
Scorer_evidence_weights ==
    << <<"name_similarity", Float(25, 100)>>, <<"type_compatibility", Float(15, 100)>>,
       <<"schema_patterns", Float(15, 100)>>, <<"domain_knowledge", Float(15, 100)>>,
       <<"value_containment", Float(20, 100)>>, <<"statistical_analysis", Float(5, 100)>>,
       <<"cardinality_analysis", Float(5, 100)>> >>

\* the placeholder score 0.5 of the statistical and the cardinality analysis
Scorer_placeholder_score == Float(1, 2)

\* the loop over evidence_scores.values() for the first n evidence entries:
\* <<weighted_sum, total_weight>>
RECURSIVE Scorer_accumulate(_, _)
Scorer_accumulate(scores, n) ==
    IF n = 0 THEN <<FloatZero, FloatZero>>
    ELSE LET acc == Scorer_accumulate(scores, n - 1)
             weight == Scorer_evidence_weights[n][2]
         IN  << FloatAdd(acc[1], FloatMul(scores[n], weight)), FloatAdd(acc[2], weight) >>

\* final_confidence = weighted_sum / total_weight if total_weight > 0 else 0.0
Scorer_final_confidence(scores) ==
    LET acc == Scorer_accumulate(scores, Len(Scorer_evidence_weights))
        weighted_sum == acc[1]
        total_weight == acc[2]
    IN  IF FloatGT(total_weight, FloatZero)
        THEN FloatDiv(weighted_sum, total_weight)
        ELSE FloatZero

(***************************************************************************)
(* AdvancedConfidenceScorer: the name similarity evidence                  *)
(***************************************************************************)
\* tpch_entities: entity -> abbreviations
Scorer_tpch_entities ==
    << <<<<"C","U","S","T","O","M","E","R">>, <<<<"C","U","S","T">>, <<"C">>>> >>,
       <<<<"S","U","P","P","L","I","E","R">>, <<<<"S","U","P","P">>, <<"S">>>> >>,
       <<<<"P","A","R","T">>,     <<<<"P">>>> >>,
       <<<<"O","R","D","E","R","S">>,   <<<<"O","R","D","E","R">>, <<"O">>>> >>,
       <<<<"L","I","N","E","I","T","E","M">>, <<<<"L","I","N","E">>, <<"L">>>> >>,
       <<<<"P","A","R","T","S","U","P","P">>, <<<<"P","S">>>> >>,
       <<<<"N","A","T","I","O","N">>,   <<<<"N">>>> >>,
       <<<<"R","E","G","I","O","N">>,   <<<<"R">>>> >> >>

Scorer_extract_core_entity(column_name) ==
    IF ~Truthy(column_name) THEN <<>>
    ELSE LET name_upper == Upper(column_name)
             core_part ==
                 IF HasChar(name_upper, "_")
                 THEN LET parts == SplitOnce(name_upper, "_")
                      IN  IF Len(parts[1]) <= 2 THEN parts[2] ELSE name_upper
                 ELSE name_upper
         IN  StripFirstSuffix(core_part, Matcher_suffixes)

Scorer_are_entity_variants(entity1, entity2) ==
    IF ~Truthy(entity1) \/ ~Truthy(entity2) THEN FALSE
    ELSE \E i \in 1..Len(Scorer_tpch_entities) :
            LET entity == Scorer_tpch_entities[i][1]
                variants == Scorer_tpch_entities[i][2]
            IN  \/ InList(entity1, variants) /\ InList(entity2, variants)
                \/ entity1 = entity /\ InList(entity2, variants)
                \/ entity2 = entity /\ InList(entity1, variants)

Scorer_calculate_levenshtein_similarity(s1, s2) ==
    IF ~Truthy(s1) \/ ~Truthy(s2) THEN FloatZero
    ELSE LET norm1 == RemoveChar(RemoveChar(Upper(s1), "_"), "-")
             norm2 == RemoveChar(RemoveChar(Upper(s2), "_"), "-")
             max_len == Max2(Len(norm1), Len(norm2))
         IN  IF norm1 = norm2 THEN Float(1, 1)
             ELSE IF max_len = 0 THEN FloatZero
             ELSE LET distance == levenshtein_distance(norm1, norm2)
                      similarity == FloatSub(Float(1, 1), Float(distance, max_len))
                  IN  FloatMax(FloatZero, similarity)

\* the score of calculate_name_similarity_evidence
Scorer_calculate_name_similarity_evidence(fk_column, pk_column) ==
    LET fk_core == Scorer_extract_core_entity(fk_column)
        pk_core == Scorer_extract_core_entity(pk_column)
        exact_match == Upper(fk_column) = Upper(pk_column)
        core_match == IF Truthy(fk_core) /\ Truthy(pk_core) THEN fk_core = pk_core ELSE FALSE
        entity_variant_match == Scorer_are_entity_variants(fk_core, pk_core)
        levenshtein_sim == Scorer_calculate_levenshtein_similarity(fk_column, pk_column)
    IN  IF exact_match THEN Float(1, 1)
        ELSE IF core_match THEN Float(95, 100)
        ELSE IF entity_variant_match THEN Float(90, 100)
        ELSE IF FloatGE(levenshtein_sim, Float(8, 10))
        THEN FloatAdd(Float(70, 100), FloatMul(FloatSub(levenshtein_sim, Float(8, 10)), Float(1, 2)))
        ELSE IF FloatGE(levenshtein_sim, Float(6, 10))
        THEN FloatAdd(Float(40, 100), FloatMul(FloatSub(levenshtein_sim, Float(6, 10)), Float(3, 2)))
        ELSE FloatMin(Float(40, 100), levenshtein_sim)

(***************************************************************************)
(* AdvancedConfidenceScorer: type compatibility and value containment      *)
(***************************************************************************)
\* type_compatibility: (fk type, pk type) -> compatibility
Scorer_type_compatibility ==
    << << <<<<"N","U","M","B","E","R">>, <<"N","U","M","B","E","R">>>>, Float(10, 10)>>,
       << <<<<"I","N","T","E","G","E","R">>, <<"I","N","T","E","G","E","R">>>>, Float(10, 10)>>,
       << <<<<"B","I","G","I","N","T">>, <<"B","I","G","I","N","T">>>>, Float(10, 10)>>,
       << <<<<"N","U","M","B","E","R">>, <<"I","N","T","E","G","E","R">>>>, Float(9, 10)>>,
       << <<<<"I","N","T","E","G","E","R">>, <<"B","I","G","I","N","T">>>>, Float(8, 10)>>,
       << <<<<"S","T","R","I","N","G">>, <<"S","T","R","I","N","G">>>>, Float(10, 10)>>,
       << <<<<"V","A","R","C","H","A","R">>, <<"V","A","R","C","H","A","R">>>>, Float(10, 10)>>,
       << <<<<"T","E","X","T">>, <<"T","E","X","T">>>>, Float(10, 10)>>,
       << <<<<"S","T","R","I","N","G">>, <<"V","A","R","C","H","A","R">>>>, Float(9, 10)>>,
       << <<<<"V","A","R","C","H","A","R">>, <<"T","E","X","T">>>>, Float(8, 10)>> >>

\* the score of calculate_type_compatibility_evidence
Scorer_calculate_type_compatibility_evidence(fk_type, pk_type) ==
    LET fk_type_norm == Upper(fk_type)
        pk_type_norm == Upper(pk_type)
        compatibility == DictGet(Scorer_type_compatibility, <<fk_type_norm, pk_type_norm>>, FloatZero)
        Both(word) == IsSubstr(word, fk_type_norm) /\ IsSubstr(word, pk_type_norm)
    IN  IF compatibility # FloatZero THEN compatibility
        ELSE IF fk_type_norm = pk_type_norm THEN Float(1, 1)
        ELSE IF Both(<<"N","U","M","B","E","R">>) \/ Both(<<"I","N","T">>) THEN Float(8, 10)
        ELSE IF Both(<<"S","T","R","I","N","G">>) \/ Both(<<"V","A","R","C","H","A","R">>) \/ Both(<<"T","E","X","T">>) THEN Float(8, 10)
        ELSE Float(1, 10)

\* the score of a containment ratio
Scorer_containment_score(containment_ratio) ==
    IF FloatGE(containment_ratio, Float(95, 100)) THEN Float(1, 1)
    ELSE IF FloatGE(containment_ratio, Float(80, 100))
    THEN FloatAdd(Float(8, 10), FloatMul(FloatSub(containment_ratio, Float(80, 100)), Float(133, 100)))
    ELSE IF FloatGE(containment_ratio, Float(60, 100))
    THEN FloatAdd(Float(5, 10), FloatMul(FloatSub(containment_ratio, Float(60, 100)), Float(15, 10)))
    ELSE IF FloatGE(containment_ratio, Float(30, 100))
    THEN FloatAdd(Float(2, 10), FloatMul(FloatSub(containment_ratio, Float(30, 100)), Float(1, 1)))
    ELSE FloatMul(containment_ratio, Float(67, 100))

\* calculate_value_containment_evidence: the ratio is that of the values
\* when both lists are given, and the argument containment_ratio otherwise
Scorer_calculate_value_containment_evidence(fk_values, pk_values, containment_ratio) ==
    LET ratio ==
            IF fk_values # None /\ pk_values # None
            THEN LET fk_set == SetOf(Value(fk_values))
                     pk_set == SetOf(Value(pk_values))
                 IN  IF Cardinality(fk_set) = 0 THEN FloatZero
                     ELSE Float(Cardinality(fk_set \cap pk_set), Cardinality(fk_set))
            ELSE containment_ratio
    IN  [score |-> Scorer_containment_score(ratio), weight |-> Float(20, 100)]

(***************************************************************************)
(* FinalOptimizedDiscovery (research/final_optimized_algorithm.py)         *)
(***************************************************************************)
Final_suffixes == <<<<"K","E","Y">>, <<"I","D">>, <<"N","U","M">>, <<"N","O">>, <<"_","I","D">>, <<"_","K","E","Y">>>>

\* the loop over the suffixes: every suffix that the rest ends with, when
\* its turn comes, is removed
RECURSIVE Final_strip_suffixes(_, _)
Final_strip_suffixes(core_part, n) ==
    IF n = 0 THEN core_part
    ELSE LET rest == Final_strip_suffixes(core_part, n - 1)
         IN  IF EndsWith(rest, Final_suffixes[n])
             THEN DropLast(rest, Len(Final_suffixes[n]))
             ELSE rest

Final_extract_core_entity(column_name) ==
    IF ~Truthy(column_name) THEN <<>>
    ELSE LET name_upper == Upper(column_name)
             core_part ==
                 IF HasChar(name_upper, "_")
                 THEN LET parts == SplitOnce(name_upper, "_")
                      IN  IF Len(parts[1]) <= 2 THEN parts[2] ELSE name_upper
                 ELSE name_upper
         IN  Final_strip_suffixes(core_part, Len(Final_suffixes))

Final_calculate_levenshtein_similarity(s1, s2) ==
    IF ~Truthy(s1) \/ ~Truthy(s2) THEN FloatZero
    ELSE LET norm1 == RemoveChar(RemoveChar(Upper(s1), "_"), "-")
             norm2 == RemoveChar(RemoveChar(Upper(s2), "_"), "-")
             max_len == Max2(Len(norm1), Len(norm2))
         IN  IF norm1 = norm2 THEN Float(85, 100)
             ELSE IF max_len = 0 THEN FloatZero
             ELSE LET distance == levenshtein_distance(norm1, norm2)
                      similarity == FloatSub(Float(1, 1), Float(distance, max_len))
                  IN  FloatMax(FloatZero, similarity)

(***************************************************************************)
(* relationships/discovery.py: the entry points                            *)
(***************************************************************************)
\* s.split(ch): the parts of s between the occurrences of ch
RECURSIVE SplitAll(_, _)
SplitAll(s, ch) ==
    IF ~HasChar(s, ch) THEN <<s>>
    ELSE <<SplitOnce(s, ch)[1]>> \o SplitAll(SplitOnce(s, ch)[2], ch)

\* seq[:n], for n of either sign
SliceTo(seq, n) ==
    IF n >= 0 THEN SubSeq(seq, 1, Min2(n, Len(seq)))
    ELSE SubSeq(seq, 1, Max2(Len(seq) + n, 0))

\* _split_table_identifier: <<workspace, schema, table>>, for an identifier
\* with at least one non-blank part
split_table_identifier(identifier) ==
    LET NonBlank(part) == Strip(part) # <<>>
        kept == SelectSeq(SplitAll(identifier, "."), NonBlank)
        parts == [i \in 1..Len(kept) |-> Strip(kept[i])]
    IN  IF Len(parts) = 3 THEN <<parts[1], parts[2], parts[3]>>
        ELSE IF Len(parts) = 2 THEN <<NoneStr, parts[1], parts[2]>>
        ELSE <<NoneStr, NoneStr, parts[1]>>

\* "a or b" on strings
OrElse(a, b) == IF Truthy(a) THEN a ELSE b

\* mapping.get(key) on a mapping kept as a record: None for a key that the
\* mapping does not hold
EntryGet(entry, key) == IF key \in DOMAIN entry THEN entry[key] ELSE NoneStr

\* bool(mapping.get(key)) for a key that holds a boolean
EntryFlag(entry, key) == key \in DOMAIN entry /\ entry[key]

\* _tables_payload_to_raw_tables, lines 123-128
Payload_raw_table_identifier(table_entry) ==
    Strip(OrElse(EntryGet(table_entry, "table_name"), OrElse(EntryGet(table_entry, "name"), OrElse(EntryGet(table_entry, "table"), <<>>))))

\* lines 136-141: the workspace of the table definition, before that of its
\* identifier, before the default
Payload_workspace(table_entry, identifier_workspace, default_workspace) ==
    OrElse(Strip(OrElse(EntryGet(table_entry, "workspace"), OrElse(EntryGet(table_entry, "database"), OrElse(identifier_workspace, default_workspace)))), default_workspace)

\* lines 142-147: the schema of the table definition, before that of its
\* identifier, before the default
Payload_schema(table_entry, identifier_schema, default_schema) ==
    OrElse(Strip(OrElse(EntryGet(table_entry, "schema"), OrElse(EntryGet(table_entry, "schema_name"), OrElse(identifier_schema, default_schema)))), default_schema)

\* line 153: the list of columns, empty for a definition without the key
\* (line 154 rejects None and the empty list alike)
Payload_columns_payload(table_entry) ==
    IF "columns" \in DOMAIN table_entry THEN table_entry.columns ELSE <<>>

\* lines 166-171
Payload_column_name(column_entry) ==
    Strip(OrElse(EntryGet(column_entry, "name"), OrElse(EntryGet(column_entry, "column_name"), OrElse(EntryGet(column_entry, "field"), <<>>))))

\* lines 177-181
Payload_column_type(column_entry) ==
    Strip(OrElse(EntryGet(column_entry, "type"), OrElse(EntryGet(column_entry, "data_type"), <<"S","T","R","I","N","G">>)))

\* lines 183-187: the sample values of a column definition, each as its
\* str(); None for a definition that lists none under sample_values or values
Payload_sample_values(column_entry) ==
    LET Listed(key) == IF key \in DOMAIN column_entry THEN Some(column_entry[key]) ELSE None
        values == IF Listed("sample_values") # None /\ Value(Listed("sample_values")) # <<>>
                  THEN Listed("sample_values")
                  ELSE Listed("values")
    IN  IF values = None THEN None
        ELSE Some([i \in 1..Len(Value(values)) |-> StrOf(Value(values)[i])])

\* lines 189-193
Payload_is_primary(column_entry) ==
    EntryFlag(column_entry, "is_primary_key") \/ EntryFlag(column_entry, "primary_key") \/ EntryFlag(column_entry, "is_primary")

\* _tables_payload_to_raw_tables, lines 123-176: the exception that a table
\* definition raises, None when it raises none.  An identifier without a
\* non-blank part raises IndexError at line 410.
payload_error(table_entry) ==
    LET NonBlank(part) == Strip(part) # <<>>
        parts == SelectSeq(SplitAll(Payload_raw_table_identifier(table_entry), "."), NonBlank)
        Unnamed(column_entry) == Payload_column_name(column_entry) = <<>>
    IN  IF Payload_raw_table_identifier(table_entry) = <<>> THEN Some("ValueError")
        ELSE IF parts = <<>> THEN Some("IndexError")
        ELSE IF Payload_columns_payload(table_entry) = <<>> THEN Some("ValueError")
        ELSE IF SelectSeq(Payload_columns_payload(table_entry), Unnamed) # <<>> THEN Some("ValueError")
        ELSE None

\* the exception of the first table definition that raises one
tables_payload_error(tables) ==
    LET Raises(table_entry) == payload_error(table_entry) # None
        raising == SelectSeq(tables, Raises)
    IN  IF raising = <<>> THEN None ELSE payload_error(raising[1])

\* _tables_payload_to_raw_tables for table definitions that raise no
\* exception: the list of (FQNParts, Table)
tables_payload_to_raw_tables(tables, default_workspace, default_schema) ==
    [table_index \in 1..Len(tables) |->
        LET table_entry == tables[table_index]
            identifier == split_table_identifier(Payload_raw_table_identifier(table_entry))
            workspace == Payload_workspace(table_entry, identifier[1], default_workspace)
            schema == Payload_schema(table_entry, identifier[2], default_schema)
            table_name == Strip(identifier[3])
            columns_payload == Payload_columns_payload(table_entry)
            columns == [column_index \in 1..Len(columns_payload) |->
                [id_ |-> column_index - 1,
                 column_name |-> Payload_column_name(columns_payload[column_index]),
                 column_type |-> Payload_column_type(columns_payload[column_index]),
                 values |-> Payload_sample_values(columns_payload[column_index]),
                 is_primary_key |-> Payload_is_primary(columns_payload[column_index])]]
        IN  [fqn |-> [database |-> Upper(workspace), schema_name |-> Upper(schema),
                      table |-> table_name],
             table |-> [id_ |-> table_index - 1, name |-> Upper(table_name),
                        columns |-> columns]]]


\* discover_relationships_from_tables, line 265:
\* max_tables is not None and len(raw_tables) > max_tables
table_cap_applies(raw_tables, max_tables) ==
    max_tables # None /\ Len(raw_tables) > Value(max_tables)

\* the note of the table cap, the f-string of line 268 as its parts
table_cap_note(raw_tables, max_tables) ==
    <<"Input contained ", Len(raw_tables), " tables; analysis limited to first ",
      Value(max_tables), ".">>

\* discover_relationships_from_tables, lines 261-270: raw_tables,
\* limited_by_table_cap and notes before the analysis
tables_for_analysis(tables, max_tables) ==
    IF table_cap_applies(tables, max_tables)
    THEN [raw_tables |-> SliceTo(tables, Value(max_tables)),
          limited_by_table_cap |-> TRUE,
          notes |-> <<table_cap_note(tables, max_tables)>>]
    ELSE [raw_tables |-> tables, limited_by_table_cap |-> FALSE, notes |-> <<>>]

\* " ".join(notes) if notes else None, a joined text kept as the list of notes
JoinNotes(notes) == IF notes # <<>> THEN Some(notes) ELSE None

RECURSIVE SumColumns(_)
SumColumns(raw_tables) ==
    IF raw_tables = <<>> THEN 0
    ELSE Len(Head(raw_tables).table.columns) + SumColumns(Tail(raw_tables))

\* discover_relationships_from_tables, lines 282-298: the result of a run
\* whose analysis returned relationships and status after elapsed_ms
discovery_result(raw_tables, limited_by_table_cap, notes, relationships, status, elapsed_ms) ==
    [relationships |-> relationships,
     tables |-> [i \in 1..Len(raw_tables) |-> raw_tables[i].table],
     summary |-> [total_tables |-> Len(raw_tables),
                  total_columns |-> SumColumns(raw_tables),
                  total_relationships_found |-> Len(relationships),
                  processing_time_ms |-> elapsed_ms,
                  limited_by_timeout |-> status.limited_by_timeout,
                  limited_by_max_relationships |-> status.limited_by_max_relationships,
                  limited_by_table_cap |-> limited_by_table_cap,
                  notes |-> JoinNotes(notes)]]

(***************************************************************************)
(* The inference engine behind _infer_relationships, after the              *)
(* specification (sections 4.1 to 4.10) and after the tests that call it   *)
(* (tests/relationship_discovery_test.py,                                  *)
(* relationships/tests/test_reference_schemas.py): its code is not part of *)
(* the source tree.                                                        *)
(***************************************************************************)
\* Python's s < t on strings
RECURSIVE StrLess(_, _)
StrLess(s, t) ==
    IF t = <<>> THEN FALSE
    ELSE IF s = <<>> THEN TRUE
    ELSE IF Head(s) # Head(t) THEN CharRank(Head(s)) < CharRank(Head(t))
    ELSE StrLess(Tail(s), Tail(t))

\* 4.1: the suffixes stripped from a name
Infer_suffixes == <<<<"K","E","Y">>, <<"I","D">>, <<"N","U","M">>, <<"N","O">>>>

\* 4.1: the upper-cased name without its leading token when that token has
\* at most two characters
Infer_remainder(name) ==
    LET upper == Upper(name)
    IN  IF HasChar(upper, "_") /\ Len(SplitOnce(upper, "_")[1]) <= 2
        THEN SplitOnce(upper, "_")[2]
        ELSE upper

\* s without the underscores it ends with
RECURSIVE DropTrailingUnderscores(_)
DropTrailingUnderscores(s) ==
    IF s # <<>> /\ s[Len(s)] = "_" THEN DropTrailingUnderscores(DropLast(s, 1)) ELSE s

\* 4.1: the core entity of a name
Infer_core_entity(name) ==
    LET core == DropTrailingUnderscores(StripFirstSuffix(Infer_remainder(name), Infer_suffixes))
    IN  IF core = <<>> THEN Upper(name) ELSE core

\* glossary: a generic-id name normalizes to a bare ID, KEY, NUM or NO
Infer_is_generic_id(name) == InList(Infer_remainder(name), Infer_suffixes)

\* 4.2: the entity dictionary, canonical -> accepted variants
Infer_entity_dictionary ==
    << <<<<"C","U","S","T","O","M","E","R">>, <<<<"C","U","S","T","O","M","E","R","S">>, <<"C","L","I","E","N","T">>>> >>,
       <<<<"O","R","D","E","R">>, <<<<"O","R","D","E","R","S">>>> >> >>

\* 4.2: business_priors, (canonical_pk, canonical_fk) -> prior
Infer_business_priors == << <<<<"C","U","S","T","O","M","E","R">>, <<"O","R","D","E","R">>, <<9, 10>> >> >>

\* 4.2: the canonical of an entity, the entity itself when the dictionary
\* does not hold it
Infer_canonical(entity) ==
    LET hits == {i \in 1..Len(Infer_entity_dictionary) :
                    \/ Infer_entity_dictionary[i][1] = entity
                    \/ InList(entity, Infer_entity_dictionary[i][2])}
    IN  IF hits = {} THEN entity
        ELSE Infer_entity_dictionary[CHOOSE i \in hits : \A j \in hits : i <= j][1]

\* 4.2: two entities are variants iff they share a canonical
Infer_are_variants(entity1, entity2) == Infer_canonical(entity1) = Infer_canonical(entity2)

\* the names that a name of tokens joined by _ qualifies: the name itself
\* and the name without some of its leading or of its trailing tokens
Infer_affixes(name) ==
    LET cuts == {i \in 1..Len(name) : name[i] = "_"}
    IN  ({name} \cup {SubSeq(name, 1, i - 1) : i \in cuts}
                \cup {SubSeq(name, i + 1, Len(name)) : i \in cuts}) \ {<<>>}

\* 4.1: the entities of a table name: its core entity, the core entity
\* without leading or trailing tokens (CUSTOMER for DIM_CUSTOMER, ORDER for
\* ORDER_DATA) and, for each of these with more than 3 characters that ends
\* in S, the singular form
Infer_table_entities(table_name) ==
    LET forms == Infer_affixes(Infer_core_entity(table_name))
        Singular(e) == IF Len(e) > 3 /\ e[Len(e)] = "S" THEN {DropLast(e, 1)} ELSE {}
    IN  forms \cup UNION {Singular(e) : e \in forms}

\* the shortest entity that is taken as the abbreviation of a longer one
Infer_min_abbreviation == 3

\* an entity abbreviates another when it is the beginning of its last token
\* (SUPP for SUPPLIER, not ENCOUNTER for ENCOUNTER_PROCEDURE)
Infer_abbreviates(entity, e) ==
    /\ Len(entity) >= Infer_min_abbreviation
    /\ StartsWith(e, entity)
    /\ ~HasChar(SubSeq(e, Len(entity) + 1, Len(e)), "_")

\* an entity matches a table when it is one of the table's entities, a
\* variant of one, or the abbreviation of one
Infer_entity_matches_table(entity, table_name) ==
    \E e \in Infer_table_entities(table_name) :
        e = entity \/ Infer_are_variants(e, entity) \/ Infer_abbreviates(entity, e)

\* 4.1: a name that carries one of the suffixes behind an entity
Infer_is_key_shaped(column) ==
    /\ StripFirstSuffix(Infer_remainder(column), Infer_suffixes) # Infer_remainder(column)
    /\ ~Infer_is_generic_id(column)

\* how the entity of an FK column relates to the entity that a PK column
\* stands for, which for a generic id is the entity of its table: "same",
\* "variant" (a variant of the dictionary, or the entity of a key-shaped FK
\* column that holds the entity of the PK column behind or before a
\* qualifier, as OWNER_USER holds USER and ORDER_ITEM holds ORDER) or "none"
Infer_entity_relation(fk_column, pk_table, pk_column) ==
    LET fk_core == Infer_core_entity(fk_column)
        pk_core == Infer_core_entity(pk_column)
        qualified == {e \in Infer_affixes(fk_core) : e # fk_core /\ Infer_is_key_shaped(fk_column)}
    IN  IF Infer_is_generic_id(pk_column)
        THEN IF Infer_is_generic_id(fk_column) THEN "none"
             ELSE IF Infer_entity_matches_table(fk_core, pk_table) THEN "same"
             ELSE IF \E e \in qualified : Infer_entity_matches_table(e, pk_table) THEN "variant"
             ELSE "none"
        ELSE IF fk_core = pk_core THEN "same"
             ELSE IF Infer_are_variants(fk_core, pk_core) \/ pk_core \in qualified THEN "variant"
             ELSE "none"

\* 4.3: normalized Levenshtein similarity after stripping _ and -
Infer_string_similarity(name1, name2) ==
    LET s1 == RemoveChar(RemoveChar(Upper(name1), "_"), "-")
        s2 == RemoveChar(RemoveChar(Upper(name2), "_"), "-")
    IN  IF s1 = <<>> \/ s2 = <<>> THEN <<0, 1>>
        ELSE IF s1 = s2 THEN <<1, 1>>
        ELSE RatMax(<<0, 1>>,
                    RatSub(<<1, 1>>, Rat(levenshtein_distance(s1, s2), Max2(Len(s1), Len(s2)))))

\* 4.6.1: name similarity
Infer_name_similarity(fk_column, pk_table, pk_column) ==
    IF Upper(fk_column) = Upper(pk_column) THEN <<1, 1>>
    ELSE IF Infer_entity_relation(fk_column, pk_table, pk_column) = "same" THEN <<19, 20>>
    ELSE IF Infer_entity_relation(fk_column, pk_table, pk_column) = "variant" THEN <<9, 10>>
    ELSE Infer_string_similarity(fk_column, pk_column)

\* 4.6.2: the classes of declared types
Infer_type_classes ==
    << <<"numeric", <<<<"I","N","T">>, <<"I","N","T","E","G","E","R">>, <<"B","I","G","I","N","T">>, <<"D","E","C","I","M","A","L">>, <<"N","U","M","B","E","R">>>> >>,
       <<"string", <<<<"S","T","R","I","N","G">>, <<"V","A","R","C","H","A","R">>, <<"T","E","X","T">>>> >>,
       <<"temporal", <<<<"D","A","T","E">>, <<"T","I","M","E","S","T","A","M","P">>>> >>,
       <<"boolean", <<<<"B","O","O","L","E","A","N">>>> >> >>

\* 4.6.2: the declared type without its parameters, upper-cased
Infer_normalized_type(type) == Strip(RemoveParenGroups(Upper(type)))

\* 4.6.2: the class of a declared type
Infer_type_class(type) ==
    LET hits == {i \in 1..Len(Infer_type_classes) :
                    InList(Infer_normalized_type(type), Infer_type_classes[i][2])}
    IN  IF hits = {} THEN "other" ELSE Infer_type_classes[CHOOSE i \in hits : TRUE][1]

\* 4.6.2: 1.0 for equal types of one class, 0.8 for a variation within a
\* class, else 0.1
Infer_type_compatibility(fk_type, pk_type) ==
    IF Infer_type_class(fk_type) # Infer_type_class(pk_type) THEN <<1, 10>>
    ELSE IF Infer_normalized_type(fk_type) = Infer_normalized_type(pk_type) THEN <<1, 1>>
    ELSE <<4, 5>>

\* 4.6.4: a column follows the prefix-entity-suffix convention when its name
\* carries an entity beside the prefix or suffix stripped from it
Infer_follows_convention(column) ==
    Infer_core_entity(column) # Upper(column) /\ ~Infer_is_generic_id(column)

\* 4.6.4: 0.6 for aligned names, 0.3 for a contained name, 0.1 for a PK named
\* after its table, capped at 1.0
Infer_schema_score(found) ==
    RatMin(<<1, 1>>,
           RatAdd(IF found.aligned THEN <<3, 5>> ELSE <<0, 1>>,
           RatAdd(IF found.contains THEN <<3, 10>> ELSE <<0, 1>>,
                  IF found.self_named THEN <<1, 10>> ELSE <<0, 1>>)))

\* 4.6.4: schema pattern
Infer_schema_pattern(fk_column, pk_table, pk_column) ==
    LET aligned ==
            /\ Infer_follows_convention(fk_column) /\ Infer_follows_convention(pk_column)
            /\ Infer_entity_relation(fk_column, pk_table, pk_column) # "none"
            /\ Infer_entity_matches_table(Infer_core_entity(pk_column), pk_table)
        contains ==
            \/ Len(pk_column) >= 4 /\ IsSubstr(Upper(pk_column), Upper(fk_column))
            \/ Upper(fk_column) = Upper(pk_table) \o <<"_">> \o Upper(pk_column)
        self_named == Infer_entity_matches_table(Infer_core_entity(pk_column), pk_table)
    IN  CHOOSE score \in {Infer_schema_score(found) : found \in
            {[aligned |-> aligned, contains |-> contains, self_named |-> self_named]}} : TRUE

\* 4.2: the domain prior of a PK table and an FK table, 0 without an entry
Infer_domain_prior(fk_table, pk_table) ==
    LET hits == {i \in 1..Len(Infer_business_priors) :
                    /\ Infer_entity_matches_table(Infer_business_priors[i][1], pk_table)
                    /\ Infer_entity_matches_table(Infer_business_priors[i][2], fk_table)}
    IN  IF hits = {} THEN <<0, 1>>
        ELSE Infer_business_priors[CHOOSE i \in hits : \A j \in hits : i <= j][3]

\* 4.6: the weights in hundredths; for a candidate without samples on
\* either side the weight of the value containment is halved
Infer_weights(sampled) ==
    [name_similarity |-> 25, type_compatibility |-> 15,
     value_containment |-> IF sampled THEN 20 ELSE 10,
     schema_pattern |-> 15, domain_prior |-> 15, statistical |-> 5,
     cardinality_plausibility |-> 5]

\* 4.6: raw_confidence, the weighted average over the weights, clamped
Infer_raw_confidence(c) ==
    LET w == Infer_weights(c.sampled)
        Part(score, weight) == RatMul(score, <<weight, 1>>)
        weighted_sum ==
            RatAdd(Part(c.name_similarity, w.name_similarity),
            RatAdd(Part(c.type_compatibility, w.type_compatibility),
            RatAdd(Part(c.value_containment, w.value_containment),
            RatAdd(Part(c.schema_pattern, w.schema_pattern),
            RatAdd(Part(c.domain_prior, w.domain_prior),
            RatAdd(Part(c.statistical, w.statistical),
                   Part(c.cardinality_plausibility, w.cardinality_plausibility)))))))
        total_weight ==
            w.name_similarity + w.type_compatibility + w.value_containment
            + w.schema_pattern + w.domain_prior + w.statistical + w.cardinality_plausibility
    IN  RatMin(<<1, 1>>, RatMax(<<0, 1>>, RatMul(weighted_sum, <<1, total_weight>>)))

\* the sample values of a column, the empty list for a column without
Infer_samples(col) == IF col.values = None THEN <<>> ELSE Value(col.values)

\* distinct / total of a list of sample values
Infer_uniqueness(values) == Rat(Cardinality(SetOf(values)), Len(values))

\* 4.6.3: the score of the containment ratio r
Infer_containment_score(r) ==
    IF RatGE(r, 19, 20) THEN <<1, 1>>
    ELSE IF RatGE(r, 4, 5) THEN RatAdd(<<4, 5>>, RatMul(RatSub(r, <<4, 5>>), <<4, 3>>))
    ELSE IF RatGE(r, 3, 5) THEN RatAdd(<<1, 2>>, RatMul(RatSub(r, <<3, 5>>), <<3, 2>>))
    ELSE IF RatGE(r, 3, 10) THEN RatAdd(<<1, 5>>, RatSub(r, <<3, 10>>))
    ELSE RatMul(<<67, 100>>, r)

\* 4.6.3: value containment, the neutral 0.5 when a side has no samples
Infer_value_containment(fk_values, pk_values) ==
    IF fk_values = <<>> \/ pk_values = <<>> THEN <<1, 2>>
    ELSE Infer_containment_score(
             Rat(Cardinality(SetOf(fk_values) \cap SetOf(pk_values)),
                 Cardinality(SetOf(fk_values))))

\* 4.6.5: the share of the three expectations that the samples meet: the
\* PK side is unique to 0.8 or more, the FK side holds at least as many
\* values as the PK side, at most half of the FK values are null; 0.5 when a
\* side has no samples
Infer_statistical(fk_values, pk_values) ==
    IF fk_values = <<>> \/ pk_values = <<>> THEN <<1, 2>>
    ELSE Rat(Cardinality({expectation \in {"pk_unique", "fk_cardinality", "fk_nulls"} :
                \/ expectation = "pk_unique" /\ RatGE(Infer_uniqueness(pk_values), 4, 5)
                \/ expectation = "fk_cardinality" /\ Len(fk_values) >= Len(pk_values)
                \/ expectation = "fk_nulls"
                   /\ 2 * Cardinality({i \in 1..Len(fk_values) : fk_values[i] = "None"})
                          <= Len(fk_values)}), 3)

\* 4.6.6: the cardinality that the FK samples lean to: one-to-one for
\* near-unique values, else many-to-one
Infer_cardinality(fk_values) ==
    IF fk_values # <<>> /\ RatGE(Infer_uniqueness(fk_values), 19, 20)
    THEN "one-to-one" ELSE "many-to-one"

\* 4.6.6: cardinality plausibility: 1.0 for FK samples that repeat, 0.5 for
\* near-unique ones and for a column without samples
Infer_cardinality_plausibility(fk_values) ==
    IF fk_values # <<>> /\ Infer_cardinality(fk_values) = "many-to-one" THEN <<1, 1>>
    ELSE <<1, 2>>

\* 4.6: the scored candidate of a column pair
Infer_scored(scores) == [raw_confidence |-> Infer_raw_confidence(scores)] @@ scores

\* 4.6: the candidate of an FK column and a PK column with its evidence
Infer_candidate(fk_table, fk_col, pk_table, pk_col) ==
    CHOOSE candidate \in {Infer_scored(scores) : scores \in {
            [fk_table |-> fk_table.name, fk_column |-> fk_col.column_name,
             pk_table |-> pk_table.name, pk_column |-> pk_col.column_name,
             name_similarity |-> Infer_name_similarity(fk_col.column_name, pk_table.name,
                                                       pk_col.column_name),
             type_compatibility |-> Infer_type_compatibility(fk_col.column_type, pk_col.column_type),
             value_containment |-> Infer_value_containment(Infer_samples(fk_col),
                                                           Infer_samples(pk_col)),
             schema_pattern |-> Infer_schema_pattern(fk_col.column_name, pk_table.name,
                                                     pk_col.column_name),
             domain_prior |-> Infer_domain_prior(fk_table.name, pk_table.name),
             statistical |-> Infer_statistical(Infer_samples(fk_col), Infer_samples(pk_col)),
             cardinality_plausibility |-> Infer_cardinality_plausibility(Infer_samples(fk_col)),
             cardinality |-> Infer_cardinality(Infer_samples(fk_col)),
             sampled |-> Infer_samples(fk_col) # <<>> /\ Infer_samples(pk_col) # <<>>]}} : TRUE

\* 4.4: the columns of the PK groups of a table: the declared primary-key
\* columns; without any, the columns named after the table that end in KEY
\* or ID and the columns whose sample values are all distinct and non-null;
\* without any of these, the key-shaped columns that carry sample values
\* (test_sample_data_composite_key_inference: store.sid, whose samples repeat)
Infer_pk_columns(table) ==
    LET Declared(col) == col.is_primary_key
        Named(col) ==
            /\ Infer_entity_matches_table(Infer_core_entity(col.column_name), table.name)
            /\ \/ EndsWith(Upper(col.column_name), <<"K","E","Y">>)
               \/ EndsWith(Upper(col.column_name), <<"I","D">>)
            /\ ~Infer_is_generic_id(col.column_name)
        Unique(col) ==
            /\ Infer_samples(col) # <<>>
            /\ Cardinality(SetOf(Infer_samples(col))) = Len(Infer_samples(col))
            /\ "None" \notin SetOf(Infer_samples(col))
        Inferred(col) == Named(col) \/ Unique(col)
        Sampled(col) == Infer_samples(col) # <<>> /\ Infer_is_key_shaped(col.column_name)
    IN  IF SelectSeq(table.columns, Declared) # <<>> THEN SelectSeq(table.columns, Declared)
        ELSE IF SelectSeq(table.columns, Inferred) # <<>> THEN SelectSeq(table.columns, Inferred)
        ELSE SelectSeq(table.columns, Sampled)

\* 4.5: the tables in the order of their names
Infer_table_order(tables) ==
    LET Before(i, j) ==
            \/ StrLess(tables[i].name, tables[j].name)
            \/ tables[i].name = tables[j].name /\ i < j
        Place(i) == 1 + Cardinality({j \in 1..Len(tables) : Before(j, i)})
    IN  [p \in 1..Len(tables) |-> tables[CHOOSE i \in 1..Len(tables) : Place(i) = p]]

\* 4.5: the candidates of every FK column and every PK column of another
\* table whose type class agrees, ordered by (F.name, c.position, P.name,
\* k.position)
Infer_candidates_of(ordered) ==
    LET OfPk(F, c, P) ==
            LET Compatible(k) == Infer_type_class(c.column_type) = Infer_type_class(k.column_type)
                targets == SelectSeq(Infer_pk_columns(P), Compatible)
            IN  [i \in 1..Len(targets) |-> Infer_candidate(F, c, P, targets[i])]
        OfColumn(F, c) ==
            Concat([p \in 1..Len(ordered) |->
                IF ordered[p].name = F.name THEN <<>> ELSE OfPk(F, c, ordered[p])])
        OfTable(F) == Concat([c \in 1..Len(F.columns) |-> OfColumn(F, F.columns[c])])
    IN  Concat([f \in 1..Len(ordered) |-> OfTable(ordered[f])])

Infer_enumerate(tables) == Infer_candidates_of(Infer_table_order(tables))

\* the analysis that looks at the first column pair only
analyze_composite_key_patterns_first_pair(table_meta, column_pairs, column_index) ==
    LET pk_names == UNION {{Upper(name) : name \in SetOf(entry[2])} :
                              entry \in SetOf(table_meta.pk_candidates)}
        side == IF column_pairs = <<>> THEN {} ELSE {Upper(column_pairs[1][column_index + 1])}
        pk_column_count == Cardinality(side \cap pk_names)
        pk_coverage_ratio ==
            IF pk_names = {} THEN <<0, 1>> ELSE Rat(pk_column_count, Cardinality(pk_names))
    IN  [pk_column_count |-> pk_column_count,
         pk_coverage_ratio |-> pk_coverage_ratio,
         is_composite_pk |-> Cardinality(pk_names) > 1 /\ RatGEq(pk_coverage_ratio, <<1, 1>>)]

\* 4.7: _analyze_composite_key_patterns: the columns of the PK group of
\* table_meta that the column pairs name at position column_index (0 for
\* the left, 1 for the right column), their share of the PK group, and
\* whether the pairs cover a composite PK group; pk_candidates is a
\* dictionary from a key to the names of a PK column
analyze_composite_key_patterns(table_meta, column_pairs, column_index) ==
    LET pk_names == UNION {{Upper(name) : name \in SetOf(entry[2])} :
                              entry \in SetOf(table_meta.pk_candidates)}
        side == {Upper(column_pairs[i][column_index + 1]) : i \in 1..Len(column_pairs)}
        pk_column_count == Cardinality(side \cap pk_names)
        pk_coverage_ratio ==
            IF pk_names = {} THEN <<0, 1>> ELSE Rat(pk_column_count, Cardinality(pk_names))
    IN  [pk_column_count |-> pk_column_count,
         pk_coverage_ratio |-> pk_coverage_ratio,
         is_composite_pk |-> Cardinality(pk_names) > 1 /\ RatGEq(pk_coverage_ratio, <<1, 1>>)]

\* 4.7: the PK group of a table as the pk_candidates of its table_meta
Infer_table_meta(table) ==
    [pk_candidates |->
        [i \in 1..Len(Infer_pk_columns(table)) |->
            <<Infer_pk_columns(table)[i].column_name,
              <<Upper(Infer_pk_columns(table)[i].column_name)>> >>]]

\* 4.7: the change of raw_confidence for the candidates of one pair of
\* tables: +0.10 for a composite PK group that is covered, +0.05 for a
\* coverage in [0.5, 1), -0.05 for a composite PK group covered below 0.5
Infer_composite_boost(analysis, pk_group_size) ==
    IF analysis.is_composite_pk THEN <<1, 10>>
    ELSE IF RatGEq(analysis.pk_coverage_ratio, <<1, 2>>)
            /\ ~RatGEq(analysis.pk_coverage_ratio, <<1, 1>>) THEN <<1, 20>>
    ELSE IF pk_group_size > 1 /\ ~RatGEq(analysis.pk_coverage_ratio, <<1, 2>>) THEN <<-1, 20>>
    ELSE <<0, 1>>

\* 4.7: the candidates with the boost of their group (fk_table, pk_table)
Infer_composite_analyzed(candidates, tables) ==
    LET TableOf(name) == tables[CHOOSE t \in 1..Len(tables) : tables[t].name = name]
        Boosted(c) ==
            LET InGroup(other) == other.fk_table = c.fk_table /\ other.pk_table = c.pk_table
                group == SelectSeq(candidates, InGroup)
                column_pairs == [i \in 1..Len(group) |-> <<group[i].fk_column, group[i].pk_column>>]
                table_meta == Infer_table_meta(TableOf(c.pk_table))
                boost == Infer_composite_boost(
                             analyze_composite_key_patterns(table_meta, column_pairs, 1),
                             Len(table_meta.pk_candidates))
            IN  [c EXCEPT !.raw_confidence =
                    RatMin(<<1, 1>>, RatMax(<<0, 1>>, RatAdd(c.raw_confidence, boost)))]
    IN  [i \in 1..Len(candidates) |-> Boosted(candidates[i])]

\* x placed behind the candidates of sorted that have at least its confidence
Infer_insert(sorted, x) ==
    LET k == Cardinality({i \in 1..Len(sorted) :
                             RatGEq(sorted[i].raw_confidence, x.raw_confidence)})
    IN  SubSeq(sorted, 1, k) \o <<x>> \o SubSeq(sorted, k + 1, Len(sorted))

\* 4.8: the candidates sorted by raw_confidence descending, stably
RECURSIVE Infer_sort(_, _)
Infer_sort(list, n) ==
    IF n = 0 THEN <<>> ELSE Infer_insert(Infer_sort(list, n - 1), list[n])

\* the candidates with their enumeration index
Infer_indexed(enumerated) ==
    [i \in 1..Len(enumerated) |-> [index |-> i] @@ enumerated[i]]

Infer_fk_key(c) == <<c.fk_table, c.fk_column>>

Infer_sorted_group(group) == Infer_sort(group, Len(group))

Infer_groups_at(candidates, firsts) ==
    [g \in 1..Len(firsts) |->
        LET InGroup(c) == Infer_fk_key(c) = Infer_fk_key(candidates[firsts[g]])
        IN  Infer_sorted_group(SelectSeq(candidates, InGroup))]

Infer_grouped(candidates) ==
    LET IsFirst(i) ==
            \A j \in 1..(i - 1) : Infer_fk_key(candidates[j]) # Infer_fk_key(candidates[i])
    IN  Infer_groups_at(candidates, SelectSeq([i \in 1..Len(candidates) |-> i], IsFirst))

\* 4.8: the candidates grouped by FK column in the order of the
\* enumeration, each group sorted by raw_confidence
Infer_fk_groups(tables) ==
    Infer_grouped(Infer_indexed(Infer_composite_analyzed(Infer_enumerate(tables), tables)))

\* 4.8: the quality gate
Infer_passes_quality_gate(c) ==
    \/ RatGE(c.name_similarity, 7, 10)
    \/ RatGE(c.domain_prior, 8, 10)
    \/ Cardinality({d \in {"type", "containment", "domain"} :
            \/ d = "type" /\ RatGE(c.type_compatibility, 9, 10)
            \/ d = "containment" /\ RatGE(c.value_containment, 8, 10)
            \/ d = "domain" /\ RatGE(c.domain_prior, 6, 10)}) >= 2

\* a guard that drops no candidate
Infer_generic_id_suppressed_never(c) == FALSE

\* 4.8: generic-ID cross-join suppression
Infer_generic_id_suppressed(c) ==
    /\ Infer_is_generic_id(c.fk_column)
    /\ ~Infer_entity_matches_table(Infer_core_entity(c.fk_column), c.pk_table)

\* 4.8: suffix-without-prefix suppression: both names end in KEY or both in
\* ID, their core entities differ and neither matches the other table
Infer_suffix_only_suppressed(c) ==
    /\ \E suffix \in {<<"K","E","Y">>, <<"I","D">>} :
          EndsWith(Upper(c.fk_column), suffix) /\ EndsWith(Upper(c.pk_column), suffix)
    /\ Infer_core_entity(c.fk_column) # Infer_core_entity(c.pk_column)
    /\ Infer_entity_relation(c.fk_column, c.pk_table, c.pk_column) = "none"
    /\ ~Infer_entity_matches_table(Infer_core_entity(c.fk_column), c.pk_table)
    /\ ~Infer_entity_matches_table(Infer_core_entity(c.pk_column), c.fk_table)

\* 3 and 4.8: the candidates of one FK column that are accepted: the top
\* candidate if it passes the quality gate, and beside such a winner every
\* further one whose confidence is within the tie band of 0.10 of the
\* winner's and whose PK table differs from the winner's (section 3); then
\* the global filters. The third condition of 4.8 on further candidates, a
\* name_similarity that differs by more than 0.2, is not asked:
\* test_banking_core_system_schema (test_reference_schemas.py) expects
\* ACCOUNT_INFO.cust_id to join CUST_INFO beside CUST_ACCOUNT_REL, two
\* targets of the same name_similarity
Infer_arbitrate(group) ==
    LET top == group[1]
        Further(c) ==
            /\ RatGEq(c.raw_confidence, RatSub(top.raw_confidence, <<1, 10>>))
            /\ c.pk_table # top.pk_table
        selected == IF Infer_passes_quality_gate(top)
                    THEN <<top>> \o SelectSeq(Tail(group), Further)
                    ELSE <<>>
        Kept(c) ==
            /\ c.fk_table # c.pk_table
            /\ ~Infer_generic_id_suppressed(c)
            /\ ~Infer_suffix_only_suppressed(c)
    IN  SelectSeq(selected, Kept)

\* 4.10, item 4: a comes before b in the output
Infer_before(a, b) ==
    LET ka == <<a.fk_table, a.pk_table, a.fk_column, a.pk_column>>
        kb == <<b.fk_table, b.pk_table, b.fk_column, b.pk_column>>
        firstDiff == {i \in 1..4 : ka[i] # kb[i] /\ \A j \in 1..(i - 1) : ka[j] = kb[j]}
    IN  IF ~RatEq(a.raw_confidence, b.raw_confidence)
        THEN RatGt(a.raw_confidence, b.raw_confidence)
        ELSE IF firstDiff # {}
             THEN LET i == CHOOSE i \in firstDiff : TRUE IN StrLess(ka[i], kb[i])
             ELSE a.index < b.index

\* 4.10: the accepted candidates in the output order, cut to the top
\* max_relationships, as relationships with their stable names
Infer_ordered(accepted) ==
    LET Place(i) == 1 + Cardinality({j \in 1..Len(accepted) : Infer_before(accepted[j], accepted[i])})
    IN  [p \in 1..Len(accepted) |->
            accepted[CHOOSE i \in 1..Len(accepted) : Place(i) = p]]

\* a cap that keeps one relationship more than max_relationships
Infer_top_one_more(ordered, max_relationships) ==
    IF max_relationships = None THEN ordered
    ELSE SubSeq(ordered, 1, Min2(Value(max_relationships) + 1, Len(ordered)))

\* 4.10: the top max_relationships of the ordered candidates
Infer_top(ordered, max_relationships) ==
    IF max_relationships = None THEN ordered
    ELSE SubSeq(ordered, 1, Min2(Value(max_relationships), Len(ordered)))

\* an engine that finds no junction table
Infer_junctions_none(accepted) == <<>>

\* 4.9: the junction tables: a table with accepted direct relationships from
\* two of its columns to two distinct other tables, whatever its primary key
\* (relationship_discovery_test.py, test_misaligned_id_relationships_are_filtered);
\* for each junction table and each two tables that it joins, the two
\* accepted candidates that a bridge is derived from, the first such pair in
\* the order of the columns
Infer_junctions(accepted) ==
    LET Partner(i, j) ==
            /\ i < j
            /\ accepted[i].fk_table = accepted[j].fk_table
            /\ accepted[i].fk_column # accepted[j].fk_column
            /\ accepted[i].pk_table # accepted[j].pk_table
        Joins(i, j) == {accepted[i].pk_table, accepted[j].pk_table}
        IsFirstPair(i, j) ==
            /\ Partner(i, j)
            /\ \A k \in 1..Len(accepted), l \in 1..Len(accepted) :
                  (/\ Partner(k, l)
                   /\ accepted[k].fk_table = accepted[i].fk_table
                   /\ Joins(k, l) = Joins(i, j))
                      => (i < k \/ (i = k /\ j <= l))
        firsts == {pair \in (1..Len(accepted)) \X (1..Len(accepted)) : IsFirstPair(pair[1], pair[2])}
        Place(pair) == 1 + Cardinality({other \in firsts :
                            \/ other[1] < pair[1]
                            \/ other[1] = pair[1] /\ other[2] < pair[2]})
    IN  [p \in 1..Cardinality(firsts) |->
            LET pair == CHOOSE pair \in firsts : Place(pair) = p
            IN  <<accepted[pair[1]], accepted[pair[2]]>>]

\* 4.9: the relationship derived from the two accepted candidates of a
\* junction table: it joins their PK tables, its confidence is the smaller
\* of theirs
Infer_bridge(pair) ==
    [fk_table |-> pair[1].pk_table, fk_column |-> pair[1].pk_column,
     pk_table |-> pair[2].pk_table, pk_column |-> pair[2].pk_column,
     raw_confidence |-> RatMin(pair[1].raw_confidence, pair[2].raw_confidence),
     index |-> pair[1].index,
     via |-> pair[1].fk_table]

\* 4.9: the accepted candidates and the relationships derived from them
Infer_with_bridges(accepted) ==
    LET junctions == Infer_junctions(accepted)
    IN  accepted \o [p \in 1..Len(junctions) |-> Infer_bridge(junctions[p])]

\* the relationships that are returned: the derived ones, and the direct
\* ones that reach min_confidence
\* (test_generic_id_columns_do_not_join_unrelated_tables)
Infer_emitted(candidates, min_confidence) ==
    LET Emitted(c) == "via" \in DOMAIN c \/ RatGEq(c.raw_confidence, min_confidence)
    IN  SelectSeq(candidates, Emitted)

\* 4.10: the relationships of the kept candidates with their stable names
\* and their columns in upper case
Infer_relationships(kept) ==
    LET Derived(c) == "via" \in DOMAIN c
        Base(c) == c.fk_table \o <<"_","T","O","_">> \o c.pk_table
                   \o (IF Derived(c) THEN <<"_","V","I","A","_">> \o c.via ELSE <<>>)
        Earlier(i) == Cardinality({j \in 1..(i - 1) : Base(kept[j]) = Base(kept[i])})
    IN  [i \in 1..Len(kept) |->
            [name |-> IF Earlier(i) = 0 THEN Base(kept[i])
                      ELSE Base(kept[i]) \o <<"_", DigitChars[Earlier(i) + 1]>>,
             left_table |-> kept[i].fk_table,
             right_table |-> kept[i].pk_table,
             column_pairs |-> << <<Upper(kept[i].fk_column), Upper(kept[i].pk_column)>> >>,
             join_type |-> "inner",
             cardinality |-> IF Derived(kept[i]) THEN "many-to-many" ELSE kept[i].cardinality,
             confidence |-> kept[i].raw_confidence,
             provenance |-> IF Derived(kept[i]) THEN "via" ELSE "direct",
             junction |-> IF Derived(kept[i]) THEN kept[i].via ELSE NoneStr]]

Infer_assemble(accepted, min_confidence, max_relationships) ==
    Infer_relationships(Infer_top(
        Infer_ordered(Infer_emitted(Infer_with_bridges(accepted), min_confidence)),
        max_relationships))

\* a status that never reports the deadline
Infer_status_without_timeout(accepted, min_confidence, max_relationships, timed_out) ==
    [limited_by_timeout |-> FALSE,
     limited_by_max_relationships |->
        /\ max_relationships # None
        /\ Len(Infer_emitted(Infer_with_bridges(accepted), min_confidence))
               > Value(max_relationships)]

\* 4.10: the status that the engine reports
Infer_status(accepted, min_confidence, max_relationships, timed_out) ==
    [limited_by_timeout |-> timed_out,
     limited_by_max_relationships |->
        /\ max_relationships # None
        /\ Len(Infer_emitted(Infer_with_bridges(accepted), min_confidence))
               > Value(max_relationships)]

(***************************************************************************)
(* Bounded inputs                                                          *)
(***************************************************************************)
\* all sequences of distinct elements of S with length lo..hi
DistinctSeqs(S, lo, hi) ==
    UNION {{q \in [1..n -> S] : \A i, j \in 1..n : i # j => q[i] # q[j]} : n \in lo..hi}

\* all orderings of the sequence q
Orderings(q) == {[i \in 1..Len(q) |-> q[f[i]]] : f \in Permutations(1..Len(q))}

(***************************************************************************)
(* Specification of AdvancedRelationshipDiscovery.discover_relationships   *)
(***************************************************************************)
MaxTables == 2

Column(name, type, is_primary_key) ==
    [name |-> name, type |-> type, is_primary_key |-> is_primary_key]

\* a column definition without the key is_primary_key
ColumnUndeclared(name, type) == [name |-> name, type |-> type]

\* a column definition without the key type
ColumnUntyped(name, is_primary_key) == [name |-> name, is_primary_key |-> is_primary_key]

\* the table definitions offered; two of them are named NATION, and three
\* are named ACCOUNTS and differ only in the keys that the dict of the
\* column PARENT_ACCOUNT_ID has
AdvTableUniverse ==
    { [table_name |-> <<"N","A","T","I","O","N">>,
       columns |-> << Column(<<"N","_","N","A","T","I","O","N","K","E","Y">>, <<"N","U","M","B","E","R">>, TRUE),
                      Column(<<"N","_","R","E","G","I","O","N","K","E","Y">>, <<"N","U","M","B","E","R">>, FALSE) >>],
      [table_name |-> <<"N","A","T","I","O","N">>,
       columns |-> << Column(<<"N","_","N","A","T","I","O","N","K","E","Y">>, <<"N","U","M","B","E","R">>, TRUE) >>],
      [table_name |-> <<"R","E","G","I","O","N">>,
       columns |-> << Column(<<"R","_","R","E","G","I","O","N","K","E","Y">>, <<"i","n","t">>, TRUE),
                      Column(<<"R","_","N","A","M","E">>, <<"S","T","R","I","N","G">>, FALSE) >>],
      [table_name |-> <<"C","U","S","T","O","M","E","R">>,
       columns |-> << Column(<<"C","_","C","U","S","T","K","E","Y">>, <<"N","U","M","B","E","R">>, TRUE),
                      Column(<<"C","_","N","A","M","E">>, <<"V","A","R","C","H","A","R","(","2","5",")"," ","N","O","T"," ","N","U","L","L">>, FALSE),
                      Column(<<"C","_","N","A","T","I","O","N","K","E","Y">>, <<"N","U","M","B","E","R">>, FALSE) >>],
      [table_name |-> <<"A","C","C","O","U","N","T","S">>,
       columns |-> << Column(<<"A","C","C","O","U","N","T","_","I","D">>, <<"N","U","M","B","E","R">>, TRUE),
                      Column(<<"P","A","R","E","N","T","_","A","C","C","O","U","N","T","_","I","D">>, <<"N","U","M","B","E","R">>, FALSE) >>],
      [table_name |-> <<"A","C","C","O","U","N","T","S">>,
       columns |-> << Column(<<"A","C","C","O","U","N","T","_","I","D">>, <<"N","U","M","B","E","R">>, TRUE),
                      ColumnUndeclared(<<"P","A","R","E","N","T","_","A","C","C","O","U","N","T","_","I","D">>, <<"N","U","M","B","E","R">>) >>],
      [table_name |-> <<"A","C","C","O","U","N","T","S">>,
       columns |-> << Column(<<"A","C","C","O","U","N","T","_","I","D">>, <<"N","U","M","B","E","R">>, TRUE),
                      ColumnUntyped(<<"P","A","R","E","N","T","_","A","C","C","O","U","N","T","_","I","D">>, FALSE) >>] }

IntValue(text) == <<"int", text>>

\* the sample data offered: none, or samples of some columns
AdvSampleUniverse ==
    { NoSamples,
      << <<<<"N","A","T","I","O","N">>,
            << <<<<"N","_","R","E","G","I","O","N","K","E","Y">>, <<IntValue("1"), IntValue("1"), IntValue("2"), IntValue("3")>> >>,
               <<<<"N","_","N","A","T","I","O","N","K","E","Y">>, <<IntValue("1"), IntValue("2"), IntValue("3")>> >> >> >>,
         <<<<"R","E","G","I","O","N">>,
            << <<<<"R","_","R","E","G","I","O","N","K","E","Y">>, <<IntValue("1"), IntValue("2"), IntValue("3"), IntValue("4")>> >> >> >>,
         <<<<"C","U","S","T","O","M","E","R">>,
            << <<<<"C","_","N","A","T","I","O","N","K","E","Y">>, <<IntValue("1"), IntValue("2"), NoneValue, IntValue("9")>> >> >> >> >> }

\* min_confidence: the default 0.5, and 0.3
AdvMinConfidences == {Float(1, 2), Float(3, 10)}

\* max_candidates: 1, and the default 100
AdvMaxCandidates == {1, 100}

\* all sequences over S with length lo..hi
SeqsOver(S, lo, hi) == UNION {[1..n -> S] : n \in lo..hi}

AdvInit ==
    /\ a_tables \in SeqsOver(AdvTableUniverse, 1, MaxTables)
    /\ a_sample_data \in AdvSampleUniverse
    /\ a_min_confidence \in AdvMinConfidences
    /\ a_max_candidates \in AdvMaxCandidates
    /\ a_pc = "call"
    /\ a_result = <<>>
    /\ MatchIdle /\ FilterIdle /\ ConfIdle /\ DiscIdle /\ SampleIdle /\ KeyIdle /\ CallIdle /\ CatIdle /\ ProgIdle

DiscoverRelationships ==
    /\ a_pc = "call"
    /\ a_result' = Adv_discover_relationships(a_tables, a_sample_data,
                                              a_min_confidence, a_max_candidates)
    /\ a_pc' = "done"
    /\ UNCHANGED <<a_tables, a_sample_data, a_min_confidence, a_max_candidates>>

AdvNext == DiscoverRelationships /\ UNCHANGED <<matchVars, filterVars, confVars, discVars, sampleVars, keyVars, callVars, catVars, progVars>>

SpecAdv == AdvInit /\ [][AdvNext]_vars

(***************************************************************************)
(* C1                                                                      *)
(***************************************************************************)
\* C1: no relationship that discover_relationships returns has its FK table
\* equal to its PK table.
C1_NoSelfReference ==
    a_pc = "done" =>
        \A i \in 1..Len(a_result) : a_result[i].fk_table # a_result[i].pk_table

(***************************************************************************)
(* C8                                                                      *)
(***************************************************************************)
\* C8: every relationship that discover_relationships returns targets one
\* column of its PK table, and that column is a primary-key column of a table
\* definition of that name; no relationship targets a column outside the
\* primary key.
C8_TargetsArePrimaryKeys ==
    a_pc = "done" =>
        \A i \in 1..Len(a_result) :
            \E t \in 1..Len(a_tables) :
                /\ a_tables[t].table_name = a_result[i].pk_table
                /\ \E c \in 1..Len(a_tables[t].columns) :
                    /\ a_tables[t].columns[c].name = a_result[i].pk_column
                    /\ Adv_column_is_primary_key(a_tables[t].columns[c])

\* C8 witness: a relationship is returned whose PK table also has a column
\* outside its primary key.
C8_Witness ==
    /\ a_pc = "done"
    /\ \E i \in 1..Len(a_result) : \E t \in 1..Len(a_tables) :
        /\ a_tables[t].table_name = a_result[i].pk_table
        /\ \E c \in 1..Len(a_tables[t].columns) : ~Adv_column_is_primary_key(a_tables[t].columns[c])

(***************************************************************************)
(* Specification of AdvancedRelationshipDiscovery._apply_intelligent_      *)
(* filtering                                                               *)
(***************************************************************************)
\* the column pairs that candidates are offered for, in the order of their
\* enumeration: three PK columns for LINEITEM.L_SHIPNO, two of them in ORDERS,
\* and one PK column for LINEITEM.L_PARTKEY
FilterPairs ==
    << <<<<"L","I","N","E","I","T","E","M">>, <<"L","_","S","H","I","P","N","O">>, <<"O","R","D","E","R","S">>, <<"O","_","S","H","I","P","N","O">>>>,
       <<<<"L","I","N","E","I","T","E","M">>, <<"L","_","S","H","I","P","N","O">>, <<"O","R","D","E","R","S">>, <<"O","_","S","H","I","P","N","O","T","E">>>>,
       <<<<"L","I","N","E","I","T","E","M">>, <<"L","_","S","H","I","P","N","O">>, <<"S","H","I","P","M","E","N","T","S">>, <<"S","H","I","P","N","O">>>>,
       <<<<"L","I","N","E","I","T","E","M">>, <<"L","_","P","A","R","T","K","E","Y">>, <<"P","A","R","T">>, <<"P","_","P","A","R","T","K","E","Y">>>> >>

\* the feature vectors offered: name_similarity, type_compatibility,
\* value_containment, statistical_score, domain_knowledge_score
FilterProfiles ==
    << << Float(19, 20), Float(1, 1),  Float(1, 2), Float(1, 2), Float(1, 10) >>,
       << Float(7, 10),  Float(1, 1),  Float(1, 2), Float(1, 2), Float(1, 10) >>,
       << Float(22, 25), Float(1, 1),  Float(1, 2), Float(1, 2), Float(1, 10) >>,
       << Float(2, 5),   Float(1, 1),  Float(1, 2), Float(1, 2), Float(1, 10) >>,
       << Float(2, 5),   Float(1, 1),  Float(3, 4), Float(1, 1), Float(1, 10) >>,
       << Float(2, 5),   Float(1, 1),  Float(1, 1), Float(1, 2), Float(1, 10) >>,
       << Float(2, 5),   Float(3, 10), Float(1, 2), Float(1, 2), Float(19, 20) >>,
       << Float(9, 10),  Float(1, 1),  Float(1, 2), Float(1, 2), Float(1, 10) >> >>

\* the candidate of a column pair with a feature vector
FilterCandidate(pair, profile) ==
    RelationshipCandidate(pair[1], pair[2], pair[3], pair[4],
        profile[1], profile[2], profile[3], profile[4], profile[5])

\* the candidate list of a choice of feature vectors, 0 for no candidate
FilterCandidates(choice) ==
    LET Chosen(i) == choice[i] # 0
        chosen == SelectSeq([i \in 1..Len(FilterPairs) |-> i], Chosen)
    IN  [k \in 1..Len(chosen) |->
            FilterCandidate(FilterPairs[chosen[k]], FilterProfiles[choice[chosen[k]]])]

FilterInit ==
    /\ f_candidates \in {FilterCandidates(choice) :
                            choice \in [1..Len(FilterPairs) -> 0..Len(FilterProfiles)]}
    /\ f_pc = "call"
    /\ f_result = <<>>
    /\ MatchIdle /\ AdvIdle /\ ConfIdle /\ DiscIdle /\ SampleIdle /\ KeyIdle /\ CallIdle /\ CatIdle /\ ProgIdle

ApplyIntelligentFiltering ==
    /\ f_pc = "call"
    /\ f_result' = Adv_apply_intelligent_filtering(f_candidates)
    /\ f_pc' = "done"
    /\ UNCHANGED f_candidates

FilterNext == ApplyIntelligentFiltering /\ UNCHANGED <<matchVars, advVars, confVars, discVars, sampleVars, keyVars, callVars, catVars, progVars>>

SpecFilter == FilterInit /\ [][FilterNext]_vars

\* the candidates of f_candidates for the FK column of c
FkGroup(c) ==
    {i \in 1..Len(f_candidates) :
        /\ f_candidates[i].fk_table = c.fk_table
        /\ f_candidates[i].fk_column = c.fk_column}

\* the top candidate of the FK column of c: of highest confidence, and the
\* first of those in the list
FkTop(c) ==
    LET g == FkGroup(c)
        t == CHOOSE i \in g :
                /\ \A j \in g : FloatGE(f_candidates[i].confidence, f_candidates[j].confidence)
                /\ \A j \in g : j < i =>
                       FloatGT(f_candidates[i].confidence, f_candidates[j].confidence)
    IN  f_candidates[t]

\* c is one of the accepted candidates
Accepted(c) == \E i \in 1..Len(f_result) : f_result[i] = c

\* the quality gate: name_similarity >= 0.7, or the domain score >= 0.8, or
\* two of type_compatibility >= 0.9, value_containment >= 0.8, domain >= 0.6
PassesQualityGate(c) ==
    \/ FloatGE(c.name_similarity, Float(7, 10))
    \/ FloatGE(c.domain_knowledge_score, Float(8, 10))
    \/ /\ FloatGE(c.type_compatibility, Float(9, 10))
       /\ FloatGE(c.value_containment, Float(8, 10))
    \/ /\ FloatGE(c.type_compatibility, Float(9, 10))
       /\ FloatGE(c.domain_knowledge_score, Float(6, 10))
    \/ /\ FloatGE(c.value_containment, Float(8, 10))
       /\ FloatGE(c.domain_knowledge_score, Float(6, 10))

\* the confidence of c is within 0.10 of that of top
WithinTieBand(c, top) == FloatGE(c.confidence, FloatSub(top.confidence, Float(1, 10)))

\* the name similarities of c and top differ by more than 0.2
NameDiffers(c, top) ==
    FloatGT(FloatAbs(FloatSub(c.name_similarity, top.name_similarity)), Float(2, 10))

(***************************************************************************)
(* C5                                                                      *)
(***************************************************************************)
\* C5 as stated: an accepted candidate other than the top candidate of its FK
\* column is within 0.10 of the top candidate, targets another PK table and
\* differs from it in name_similarity by more than 0.2; two accepted
\* candidates of one FK column never target the same PK table.
C5_FurtherNeedsAllThree ==
    f_pc = "done" =>
        /\ \A i \in 1..Len(f_result) :
              LET c == f_result[i]
                  top == FkTop(c)
              IN  c # top =>
                      /\ WithinTieBand(c, top)
                      /\ c.pk_table # top.pk_table
                      /\ NameDiffers(c, top)
        /\ \A i, j \in 1..Len(f_result) :
              /\ i # j
              /\ f_result[i].fk_table = f_result[j].fk_table
              /\ f_result[i].fk_column = f_result[j].fk_column
              => f_result[i].pk_table # f_result[j].pk_table

\* what _apply_intelligent_filtering does instead: the accepted candidates
\* are candidates of the list, each at most once, and an accepted candidate
\* other than the top candidate of its FK column is
\* within 0.10 of the top candidate, passes the quality gate, and targets
\* another PK table or differs from the top candidate in name_similarity by
\* more than 0.2.
C5_FurtherNeedsBandGateAndEither ==
    f_pc = "done" =>
        /\ \A i \in 1..Len(f_result) : \E k \in 1..Len(f_candidates) : f_candidates[k] = f_result[i]
        /\ \A i, j \in 1..Len(f_result) : i # j => f_result[i] # f_result[j]
        /\ \A i \in 1..Len(f_result) :
              LET c == f_result[i]
                  top == FkTop(c)
              IN  c # top =>
                      /\ WithinTieBand(c, top)
                      /\ PassesQualityGate(c)
                      /\ c.pk_table # top.pk_table \/ NameDiffers(c, top)

\* for one FK column a further candidate is accepted beside the
\* top candidate, and another candidate that is within 0.10 of the top
\* candidate and passes the quality gate is not accepted.
C5_Witness ==
    /\ f_pc = "done"
    /\ \E i, j \in 1..Len(f_result) :
          /\ i # j
          /\ f_result[i] = FkTop(f_result[i])
          /\ FkTop(f_result[j]) = f_result[i]
          /\ \E k \in FkGroup(f_result[i]) :
                /\ ~Accepted(f_candidates[k])
                /\ WithinTieBand(f_candidates[k], f_result[i])
                /\ PassesQualityGate(f_candidates[k])

(***************************************************************************)
(* C6                                                                      *)
(***************************************************************************)
\* C6: every accepted candidate passes the quality gate (name_similarity >=
\* 0.7, or domain score >= 0.8, or two of type_compatibility >= 0.9,
\* value_containment >= 0.8, domain score >= 0.6), so the top candidate of an
\* FK column is accepted only if it passes the gate; and the top candidate
\* that passes the gate is accepted.
C6_AcceptedPassQualityGate ==
    f_pc = "done" =>
        /\ \A i \in 1..Len(f_result) : PassesQualityGate(f_result[i])
        /\ \A k \in 1..Len(f_candidates) :
              /\ f_candidates[k] = FkTop(f_candidates[k])
              /\ PassesQualityGate(f_candidates[k])
              => Accepted(f_candidates[k])

\* C6 witness: the top candidate of an FK column fails the quality gate with
\* a confidence above 0.65 and is not accepted, while a candidate of lower
\* confidence is.
C6_Witness ==
    /\ f_pc = "done"
    /\ \E k \in 1..Len(f_candidates) :
          /\ f_candidates[k] = FkTop(f_candidates[k])
          /\ ~PassesQualityGate(f_candidates[k])
          /\ FloatGE(f_candidates[k].confidence, Float(65, 100))
          /\ ~Accepted(f_candidates[k])
          /\ \E i \in 1..Len(f_result) :
                FloatGT(f_candidates[k].confidence, f_result[i].confidence)

(***************************************************************************)
(* Specification of the two confidence calculations                        *)
(***************************************************************************)
\* the scores offered for one evidence dimension
ScoreGrid == {FloatZero, Float(1, 2), Float(1, 1)}

\* the scores that a caller of each calculation sets: the features of a
\* RelationshipCandidate, the computed evidence scores of the scorer (its two
\* other scores are the placeholder)
ConfFeatures ==
    <<"name_similarity", "type_compatibility", "value_containment",
      "statistical", "domain_knowledge">>
ConfDims == Len(ConfFeatures)

\* the confidence of a score vector under either calculation
ConfidenceOf(kind, scores) ==
    IF kind = "candidate"
    THEN Candidate_calculate_confidence(scores[1], scores[2], scores[3], scores[4], scores[5])
    ELSE Scorer_final_confidence(scores \o <<Scorer_placeholder_score, Scorer_placeholder_score>>)

ConfInit ==
    /\ c_kind \in {"candidate", "scorer"}
    /\ c_scores \in [1..ConfDims -> ScoreGrid]
    /\ c_dim \in 1..ConfDims
    /\ c_value \in ScoreGrid
    /\ FloatGT(c_value, c_scores[c_dim])
    /\ c_pc = "call"
    /\ c_before = FloatZero
    /\ c_after = FloatZero
    /\ MatchIdle /\ AdvIdle /\ FilterIdle /\ DiscIdle /\ SampleIdle /\ KeyIdle /\ CallIdle /\ CatIdle /\ ProgIdle

\* the confidence of the scores, and of the scores with one dimension raised
CalculateConfidence ==
    /\ c_pc = "call"
    /\ c_before' = ConfidenceOf(c_kind, c_scores)
    /\ c_after' = ConfidenceOf(c_kind, [c_scores EXCEPT ![c_dim] = c_value])
    /\ c_pc' = "done"
    /\ UNCHANGED <<c_kind, c_scores, c_dim, c_value>>

ConfNext == CalculateConfidence /\ UNCHANGED <<matchVars, advVars, filterVars, discVars, sampleVars, keyVars, callVars, catVars, progVars>>

SpecConf == ConfInit /\ [][ConfNext]_vars

(***************************************************************************)
(* C9                                                                      *)
(***************************************************************************)
\* C9: raising the score of one evidence dimension while the other scores
\* stay fixed never lowers the confidence, under the weighted sum of
\* RelationshipCandidate and under the weighted average of the scorer, and
\* both confidences lie in [0, 1].
C9_ConfidenceMonotone ==
    c_pc = "done" =>
        /\ FloatGE(c_after, c_before)
        /\ FloatGE(c_before, FloatZero) /\ FloatLE(c_after, Float(1, 1))

\* C9 witness: a score of the scorer's value containment raised from 0 to 1
\* raises the weighted average, by the weight 0.20 of that dimension up to
\* the rounding of the sums.
C9_Witness ==
    /\ c_pc = "done"
    /\ c_kind = "scorer"
    /\ c_dim = 5
    /\ c_scores[c_dim] = FloatZero /\ c_value = Float(1, 1)
    /\ FloatGT(FloatSub(c_after, c_before), Float(19, 100))
    /\ FloatLT(FloatSub(c_after, c_before), Float(21, 100))

(***************************************************************************)
(* Specification of discover_relationships_from_table_definitions          *)
(***************************************************************************)
MaxDiscTables == 3

PayloadColumn(name, type, is_primary_key) ==
    [name |-> name, type |-> type, is_primary_key |-> is_primary_key]

Orders ==
    [table_name |-> <<"o","r","d","e","r","s">>,
     columns |-> << PayloadColumn(<<"o","r","d","e","r","_","i","d">>, <<"N","U","M","B","E","R">>, TRUE),
                    PayloadColumn(<<"c","u","s","t","o","m","e","r","_","i","d">>, <<"N","U","M","B","E","R">>, FALSE) >>]
Customers ==
    [table_name |-> <<"s","a","l","e","s",".","c","u","s","t","o","m","e","r","s">>,
     columns |-> << PayloadColumn(<<"c","u","s","t","o","m","e","r","_","i","d">>, <<"N","U","M","B","E","R">>, TRUE) >>]
Customer ==
    [table_name |-> <<"c","u","s","t","o","m","e","r">>,
     columns |-> << PayloadColumn(<<"c","u","s","t","o","m","e","r","_","i","d">>, <<"N","U","M","B","E","R">>, TRUE) >>]
TableA ==
    [table_name |-> <<"t","a","b","l","e","_","a">>,
     columns |-> << PayloadColumn(<<"i","d">>, <<"N","U","M","B","E","R">>, TRUE),
                    PayloadColumn(<<"v","a","l","u","e">>, <<"N","U","M","B","E","R">>, FALSE) >>]
TableB ==
    [table_name |-> <<"t","a","b","l","e","_","b">>,
     columns |-> << PayloadColumn(<<"i","d">>, <<"N","U","M","B","E","R">>, TRUE),
                    PayloadColumn(<<"v","a","l","u","e">>, <<"N","U","M","B","E","R">>, FALSE) >>]

\* a table with two FK columns, one named by a variant of the entity of the
\* other
Visits ==
    [table_name |-> <<"v","i","s","i","t","s">>,
     columns |-> << PayloadColumn(<<"v","i","s","i","t","_","i","d">>, <<"N","U","M","B","E","R">>, TRUE),
                    PayloadColumn(<<"c","u","s","t","o","m","e","r","_","i","d">>, <<"N","U","M","B","E","R">>, FALSE),
                    PayloadColumn(<<"c","l","i","e","n","t","_","i","d">>, <<"N","U","M","B","E","R">>, FALSE) >>]

\* the table definitions offered to a single run, and to two runs
DiscTableUniverse == {Orders, Customers, Customer, TableA, TableB}
RunsTableUniverse == {Orders, Customers, Customer, Visits}

\* the defaults of discover_relationships_from_table_definitions
DefaultArgs ==
    [default_workspace |-> <<"O","F","F","L","I","N","E">>, default_schema |-> <<"P","U","B","L","I","C">>,
     max_tables |-> None, min_confidence |-> <<1, 2>>,
     max_relationships |-> None, timeout_seconds |-> Some(15)]

\* the tuning arguments offered to a single run: the defaults, and the
\* defaults with one argument changed
DiscArgs ==
    {DefaultArgs}
    \cup {[DefaultArgs EXCEPT !.max_tables = Some(n)] : n \in {-1, 0, 1, 2}}
    \cup {[DefaultArgs EXCEPT !.min_confidence = <<3, 10>>],
          [DefaultArgs EXCEPT !.max_relationships = Some(1)],
          [DefaultArgs EXCEPT !.max_relationships = Some(2)],
          [DefaultArgs EXCEPT !.timeout_seconds = None]}

\* the tuning arguments offered to two runs
RunsArgs == {DefaultArgs, [DefaultArgs EXCEPT !.max_tables = Some(2)]}

\* the milliseconds that a run takes beside the time it waits for its deadline
DiscElapsedMs == {2, 5}

\* the list, the list reversed and the list rotated by one
Reorderings(q) ==
    {q, [i \in 1..Len(q) |-> q[Len(q) + 1 - i]],
        [i \in 1..Len(q) |-> q[(i % Len(q)) + 1]]}

DiscStart ==
    /\ d_run = 1 /\ d_pc = "call" /\ d_results = <<>>
    /\ DiscNoCall

\* one run
DiscInit ==
    /\ \E tables \in DistinctSeqs(DiscTableUniverse, 0, MaxDiscTables) : d_tables = <<tables>>
    /\ d_args \in DiscArgs
    /\ DiscStart
    /\ MatchIdle /\ AdvIdle /\ FilterIdle /\ ConfIdle /\ SampleIdle /\ KeyIdle /\ CallIdle /\ CatIdle /\ ProgIdle

\* two runs, the second on a reordering of the table definitions of the first
RunsInit ==
    /\ \E tables \in DistinctSeqs(RunsTableUniverse, 0, MaxDiscTables) :
          \E reordered \in Reorderings(tables) : d_tables = <<tables, reordered>>
    /\ d_args \in RunsArgs
    /\ DiscStart
    /\ MatchIdle /\ AdvIdle /\ FilterIdle /\ ConfIdle /\ SampleIdle /\ KeyIdle /\ CallIdle /\ CatIdle /\ ProgIdle

\* the entry point up to the analysis: the table definitions become tables,
\* the table cap is applied, and the engine enumerates and scores the
\* candidates of the tables that are left; a table definition that raises
\* ends the run with its exception
Call ==
    /\ d_pc = "call"
    /\ IF tables_payload_error(d_tables[d_run]) # None
       THEN /\ d_results' = Append(d_results,
                                   [raised |-> Value(tables_payload_error(d_tables[d_run]))])
            /\ IF d_run < Len(d_tables)
               THEN d_run' = d_run + 1 /\ d_pc' = "call"
               ELSE d_run' = d_run /\ d_pc' = "done"
            /\ UNCHANGED <<d_tables, d_args, d_raw_tables, d_limited_by_table_cap, d_notes,
                           d_pending, d_accepted, d_timed_out>>
       ELSE /\ LET raw == tables_payload_to_raw_tables(d_tables[d_run], d_args.default_workspace, d_args.default_schema)
                   kept == tables_for_analysis(raw, d_args.max_tables)
               IN  /\ d_raw_tables' = kept.raw_tables
                   /\ d_limited_by_table_cap' = kept.limited_by_table_cap
                   /\ d_notes' = kept.notes
                   /\ d_pending' = Infer_fk_groups(
                          [i \in 1..Len(kept.raw_tables) |-> kept.raw_tables[i].table])
            /\ d_accepted' = <<>>
            /\ d_timed_out' = FALSE
            /\ d_pc' = "arbitrate"
            /\ UNCHANGED <<d_tables, d_args, d_run, d_results>>

\* the engine arbitrates the candidates of the next FK column
Arbitrate ==
    /\ d_pc = "arbitrate"
    /\ ~d_timed_out
    /\ d_pending # <<>>
    /\ d_accepted' = d_accepted \o Infer_arbitrate(Head(d_pending))
    /\ d_pending' = Tail(d_pending)
    /\ UNCHANGED <<d_tables, d_args, d_run, d_pc, d_raw_tables, d_limited_by_table_cap,
                   d_notes, d_timed_out, d_results>>

\* the deadline passes while candidates are pending: the engine arbitrates
\* none of them any more
Deadline ==
    /\ d_pc = "arbitrate"
    /\ d_args.timeout_seconds # None
    /\ ~d_timed_out
    /\ d_pending # <<>>
    /\ d_timed_out' = TRUE
    /\ UNCHANGED <<d_tables, d_args, d_run, d_pc, d_raw_tables, d_limited_by_table_cap,
                   d_notes, d_pending, d_accepted, d_results>>

\* the engine has no candidate left to arbitrate, or its deadline has passed
ReturnReady == d_pc = "arbitrate" /\ (d_pending = <<>> \/ d_timed_out)

\* the engine assembles the relationships and the entry point returns the
\* result; _discover_relationships does not call the engine without tables
Return ==
    /\ ReturnReady
    /\ \E ms \in DiscElapsedMs :
        LET relationships ==
                IF d_raw_tables = <<>> THEN <<>>
                ELSE Infer_assemble(d_accepted, d_args.min_confidence, d_args.max_relationships)
            status ==
                IF d_raw_tables = <<>>
                THEN [limited_by_timeout |-> FALSE, limited_by_max_relationships |-> FALSE]
                ELSE Infer_status(d_accepted, d_args.min_confidence, d_args.max_relationships,
                                 d_timed_out)
            elapsed_ms == (IF d_timed_out THEN Value(d_args.timeout_seconds) * 1000 ELSE 0) + ms
        IN  d_results' = Append(d_results,
                discovery_result(d_raw_tables, d_limited_by_table_cap, d_notes,
                                 relationships, status, elapsed_ms))
    /\ d_raw_tables' = <<>> /\ d_limited_by_table_cap' = FALSE /\ d_notes' = <<>>
    /\ d_pending' = <<>> /\ d_accepted' = <<>> /\ d_timed_out' = FALSE
    /\ IF d_run < Len(d_tables)
       THEN d_run' = d_run + 1 /\ d_pc' = "call"
       ELSE d_run' = d_run /\ d_pc' = "done"
    /\ UNCHANGED <<d_tables, d_args>>

DiscNext ==
    (Call \/ Arbitrate \/ Deadline \/ Return)
    /\ UNCHANGED <<matchVars, advVars, filterVars, confVars, sampleVars, keyVars, callVars, catVars, progVars>>

SpecDisc == DiscInit /\ [][DiscNext]_vars

SpecRuns == RunsInit /\ [][DiscNext]_vars

\* the tables that run k was given, and its result
GivenTables(k) == tables_payload_to_raw_tables(d_tables[k], d_args.default_workspace, d_args.default_schema)
ResultOf(k) == d_results[k]

\* more tables are given than max_tables
MoreThanMaxTables ==
    d_args.max_tables # None /\ Len(d_tables[1]) > Value(d_args.max_tables)

\* no run was cut short by its deadline
NoRunTimedOut == \A k \in 1..Len(d_results) : ~ResultOf(k).summary.limited_by_timeout

\* the relationships of a result join tables of the result only
JoinsKeptTables(result) ==
    \A i \in 1..Len(result.relationships) :
        \A side \in {result.relationships[i].left_table, result.relationships[i].right_table} :
            \E t \in 1..Len(result.tables) : result.tables[t].name = side

\* C10 as stated: limited_by_table_cap is true exactly when max_tables is
\* given and more than max_tables tables are given; then the first
\* max_tables tables are kept, max_tables of them, the relationships join
\* kept tables only and notes is set; otherwise every table is kept and
\* notes is None.
C10_CapKeepsMaxTables ==
    d_pc = "done" =>
        LET given == GivenTables(1)
            result == ResultOf(1)
        IN  /\ result.summary.limited_by_table_cap = MoreThanMaxTables
            /\ MoreThanMaxTables =>
                /\ Len(result.tables) = Value(d_args.max_tables)
                /\ result.summary.total_tables = Value(d_args.max_tables)
                /\ \A i \in 1..Len(result.tables) : result.tables[i] = given[i].table
                /\ result.summary.notes # None
                /\ JoinsKeptTables(result)
            /\ ~MoreThanMaxTables =>
                /\ result.tables = [i \in 1..Len(given) |-> given[i].table]
                /\ result.summary.total_tables = Len(given)
                /\ result.summary.notes = None

\* the number of tables of the Python slice tables[:max_tables]
SliceLength(length, max_tables) ==
    IF max_tables >= 0 THEN Min2(max_tables, length) ELSE Max2(0, length + max_tables)

\* C10, amended: limited_by_table_cap is true exactly when max_tables is
\* given and more than max_tables tables are given; then the tables kept are
\* tables[:max_tables], which are the first max_tables tables when max_tables
\* is not negative and all but the last -max_tables tables when it is; the
\* result's tables and total_tables describe the kept tables, the
\* relationships join kept tables only and notes names both counts;
\* otherwise every table is kept and notes is None.
C10_CapKeepsSlice ==
    d_pc = "done" =>
        LET given == GivenTables(1)
            result == ResultOf(1)
        IN  /\ result.summary.limited_by_table_cap = MoreThanMaxTables
            /\ MoreThanMaxTables =>
                /\ Len(result.tables) = SliceLength(Len(given), Value(d_args.max_tables))
                /\ result.summary.total_tables = Len(result.tables)
                /\ \A i \in 1..Len(result.tables) : result.tables[i] = given[i].table
                /\ result.summary.notes # None
                /\ Value(result.summary.notes)[1][2] = Len(given)
                /\ Value(result.summary.notes)[1][4] = Value(d_args.max_tables)
                /\ JoinsKeptTables(result)
            /\ ~MoreThanMaxTables =>
                /\ result.tables = [i \in 1..Len(given) |-> given[i].table]
                /\ result.summary.total_tables = Len(given)
                /\ result.summary.notes = None

\* a run that was cut to two of three tables and found a relationship
\* between the two
C10_Witness ==
    /\ d_pc = "done"
    /\ Len(d_tables[1]) = 3 /\ d_args.max_tables = Some(2)
    /\ ResultOf(1).summary.limited_by_table_cap
    /\ Len(ResultOf(1).tables) = 2
    /\ ResultOf(1).relationships # <<>>

\* the FK column of a relationship
FkColumnOf(relationship) == relationship.column_pairs[1][1]

\* a generic FK column whose core entity does not match the PK table
GenericAndUnmatched(fk_column, pk_table) ==
    /\ Infer_is_generic_id(fk_column)
    /\ ~Infer_entity_matches_table(Infer_core_entity(fk_column), pk_table)

\* every column of the tables is named id or value
OnlyIdAndValue(tables) ==
    \A t \in 1..Len(tables) : \A c \in 1..Len(tables[t].columns) :
        tables[t].columns[c].name \in {<<"i","d">>, <<"v","a","l","u","e">>}

\* C7: no relationship of a result has a generic FK column (ID, KEY, NUM,
\* NO) whose core entity does not match the PK table, whatever
\* min_confidence is; tables that hold only the columns id and value get
\* no relationship.
C7_GenericIdsAreDropped ==
    d_pc = "done" =>
        /\ \A i \in 1..Len(ResultOf(1).relationships) :
              ~GenericAndUnmatched(FkColumnOf(ResultOf(1).relationships[i]),
                                   ResultOf(1).relationships[i].right_table)
        /\ OnlyIdAndValue(d_tables[1]) => ResultOf(1).relationships = <<>>

\* table_a and table_b were analysed to the end: the candidate from id to id
\* reaches min_confidence and passes the quality gate, and no relationship
\* is returned
C7_Witness ==
    /\ d_pc = "done"
    /\ Len(d_tables[1]) = 2 /\ OnlyIdAndValue(d_tables[1])
    /\ ~ResultOf(1).summary.limited_by_timeout
    /\ ~ResultOf(1).summary.limited_by_table_cap
    /\ ResultOf(1).relationships = <<>>
    /\ LET candidates == Infer_enumerate(ResultOf(1).tables)
       IN  \E i \in 1..Len(candidates) :
              /\ GenericAndUnmatched(candidates[i].fk_column, candidates[i].pk_table)
              /\ RatGEq(candidates[i].raw_confidence, d_args.min_confidence)
              /\ Infer_passes_quality_gate(candidates[i])

\* C2 as stated, for runs that end before their deadline: a run on a
\* reordering of the table definitions returns the same relationships with
\* the same confidences in the same order.
C2_ReorderingKeepsRelationships ==
    (d_pc = "done" /\ NoRunTimedOut) =>
        ResultOf(1).relationships = ResultOf(2).relationships

\* when no more than max_tables tables are given and both runs end before
\* their deadline, a run on a reordering of the table definitions returns the
\* same relationships with the same confidences in the same order
C2_ReorderingKeepsRelationshipsUncapped ==
    (d_pc = "done" /\ NoRunTimedOut /\ ~MoreThanMaxTables) =>
        ResultOf(1).relationships = ResultOf(2).relationships

\* two runs on three tables in different orders that returned the same two
\* or more relationships
C2_Witness ==
    /\ d_pc = "done" /\ NoRunTimedOut /\ ~MoreThanMaxTables
    /\ Len(d_tables[1]) = 3
    /\ d_tables[2] # d_tables[1]
    /\ Len(ResultOf(1).relationships) >= 2
    /\ ResultOf(1).relationships = ResultOf(2).relationships

\* C3 as stated, for runs that end before their deadline: two runs on the
\* same table definitions return results that agree in every field.
C3_RunsAgreeInEveryField ==
    (d_pc = "done" /\ d_tables[1] = d_tables[2] /\ NoRunTimedOut) =>
        ResultOf(1) = ResultOf(2)

\* two runs on the same tables that returned the same relationships and took
\* different times
C3_TimesDiffer ==
    /\ d_pc = "done" /\ d_tables[1] = d_tables[2] /\ NoRunTimedOut
    /\ ResultOf(1).relationships # <<>>
    /\ ResultOf(1).relationships = ResultOf(2).relationships
    /\ ResultOf(1).summary.processing_time_ms # ResultOf(2).summary.processing_time_ms

(***************************************************************************)
(* C14                                                                     *)
(***************************************************************************)
\* the counters of a result describe its tables and relationships
CountersAgree(result) ==
    /\ result.summary.total_tables = Len(result.tables)
    /\ result.summary.total_columns =
          SumColumns([i \in 1..Len(result.tables) |-> [table |-> result.tables[i]]])
    /\ result.summary.total_relationships_found = Len(result.relationships)

\* a result without relationships, its counters 0 and its flags false
EmptyResult(result) ==
    /\ result.relationships = <<>>
    /\ result.summary.total_tables = 0
    /\ result.summary.total_columns = 0
    /\ result.summary.total_relationships_found = 0
    /\ ~result.summary.limited_by_timeout
    /\ ~result.summary.limited_by_max_relationships
    /\ ~result.summary.limited_by_table_cap

\* C14: every run returns a summary whose total_tables, total_columns and
\* total_relationships_found are the number of tables of the result, the sum
\* of their column counts and the number of relationships of the result; a
\* run on no tables returns no relationships, the three counters 0 and the
\* three limited_by flags false.
C14_SummaryAgreesAndEmptyIsUnflagged ==
    \A k \in 1..Len(d_results) :
        /\ CountersAgree(ResultOf(k))
        /\ d_tables[k] = <<>> => EmptyResult(ResultOf(k))

\* the counters of every result agree with its data; a run on no tables
\* returns no relationships, the counters 0, and no flag but the flag of the
\* table cap, which is set when max_tables is negative
C14_SummaryAgrees ==
    \A k \in 1..Len(d_results) :
        /\ CountersAgree(ResultOf(k))
        /\ d_tables[k] = <<>> =>
              /\ EmptyResult([ResultOf(k) EXCEPT !.summary.limited_by_table_cap = FALSE])
              /\ ResultOf(k).summary.limited_by_table_cap =
                    (d_args.max_tables # None /\ Value(d_args.max_tables) < 0)

\* a run on three tables returned a relationship
C14_Witness ==
    /\ d_pc = "done"
    /\ Len(ResultOf(1).tables) = 3 /\ ResultOf(1).summary.total_columns >= 4
    /\ ResultOf(1).summary.total_relationships_found >= 1

(***************************************************************************)
(* Specification of the entry point on malformed table definitions         *)
(***************************************************************************)
\* a definition without columns
Payments == [table_name |-> <<"p","a","y","m","e","n","t","s">>, columns |-> <<>>]
\* a definition that names a column twice
Invoices ==
    [table_name |-> <<"i","n","v","o","i","c","e","s">>,
     columns |-> << PayloadColumn(<<"i","n","v","o","i","c","e","_","i","d">>, <<"N","U","M","B","E","R">>, TRUE),
                    PayloadColumn(<<"c","u","s","t","o","m","e","r","_","i","d">>, <<"N","U","M","B","E","R">>, FALSE),
                    PayloadColumn(<<"c","u","s","t","o","m","e","r","_","i","d">>, <<"N","U","M","B","E","R">>, FALSE) >>]
\* a definition with a column of an unknown type
Events ==
    [table_name |-> <<"e","v","e","n","t","s">>,
     columns |-> << PayloadColumn(<<"e","v","e","n","t","_","i","d">>, <<"N","U","M","B","E","R">>, TRUE),
                    PayloadColumn(<<"c","u","s","t","o","m","e","r","_","i","d">>, <<"G","E","O","G","R","A","P","H","Y">>, FALSE) >>]
\* a definition whose identifier holds no segment
Unnamed ==
    [table_name |-> <<" ","."," ">>,
     columns |-> << PayloadColumn(<<"o","r","d","e","r","_","i","d">>, <<"N","U","M","B","E","R">>, TRUE) >>]

PayloadTableUniverse == {Orders, Customers, Payments, Invoices, Events, Unnamed}

PayloadArgs == {DefaultArgs, [DefaultArgs EXCEPT !.timeout_seconds = None]}

PayloadInit ==
    /\ \E tables \in DistinctSeqs(PayloadTableUniverse, 0, MaxDiscTables) : d_tables = <<tables>>
    /\ d_args \in PayloadArgs
    /\ DiscStart
    /\ MatchIdle /\ AdvIdle /\ FilterIdle /\ ConfIdle /\ SampleIdle /\ KeyIdle /\ CallIdle /\ CatIdle /\ ProgIdle

SpecPayload == PayloadInit /\ [][DiscNext]_vars

\* a run that ended with an exception
Raised(result) == DOMAIN result = {"raised"}

\* the ways in which a table definition is malformed
LacksColumns(table_entry) == table_entry.columns = <<>>
RepeatsColumn(table_entry) ==
    \E i, j \in 1..Len(table_entry.columns) :
        i # j /\ table_entry.columns[i].name = table_entry.columns[j].name
HasUnknownType(table_entry) ==
    \E i \in 1..Len(table_entry.columns) :
        Infer_type_class(table_entry.columns[i].type) = "other"
LacksSegment(table_entry) ==
    \A i \in 1..Len(table_entry.table_name) : table_entry.table_name[i] \in {" ", "."}
Malformed(table_entry) ==
    \/ LacksColumns(table_entry) \/ RepeatsColumn(table_entry)
    \/ HasUnknownType(table_entry) \/ LacksSegment(table_entry)

\* C13 as stated: a run on table definitions of which some are malformed
\* does not raise; its result holds the well-formed tables, in their order,
\* and a note when a table was skipped.
C13_MalformedTableIsSkipped ==
    \A k \in 1..Len(d_results) :
        LET WellFormed(table_entry) == ~Malformed(table_entry)
            kept == SelectSeq(d_tables[k], WellFormed)
        IN  /\ ~Raised(ResultOf(k))
            /\ Len(ResultOf(k).tables) = Len(kept)
            /\ \A i \in 1..Len(kept) :
                  ResultOf(k).tables[i].name = Upper(Strip(split_table_identifier(kept[i].table_name)[3]))
            /\ (Len(kept) < Len(d_tables[k])) = (ResultOf(k).summary.notes # None)

\* what the entry point does instead: a run on table definitions of which
\* one has no columns or
\* an identifier without a segment raises (ValueError for the columns,
\* IndexError for the identifier, the exception of the first such table) and
\* returns no result; otherwise the run does not raise, and a table that
\* names a column twice or has a column of an unknown type is kept with all
\* its columns, without a note.
C13_MalformedRaisesOrIsKept ==
    \A k \in 1..Len(d_results) :
        LET Rejected(table_entry) == LacksColumns(table_entry) \/ LacksSegment(table_entry)
            rejected == SelectSeq(d_tables[k], Rejected)
        IN  IF rejected # <<>>
            THEN /\ Raised(ResultOf(k))
                 /\ ResultOf(k).raised =
                       (IF LacksSegment(rejected[1]) THEN "IndexError" ELSE "ValueError")
            ELSE /\ ~Raised(ResultOf(k))
                 /\ Len(ResultOf(k).tables) = Len(d_tables[k])
                 /\ \A i \in 1..Len(d_tables[k]) :
                       /\ Len(ResultOf(k).tables[i].columns) = Len(d_tables[k][i].columns)
                       /\ \A c \in 1..Len(d_tables[k][i].columns) :
                             /\ ResultOf(k).tables[i].columns[c].column_name = d_tables[k][i].columns[c].name
                             /\ ResultOf(k).tables[i].columns[c].column_type = d_tables[k][i].columns[c].type
                 /\ ResultOf(k).summary.notes = None

\* a run on orders, customers and a table without columns raised ValueError
C13_Witness ==
    /\ d_pc = "done"
    /\ Len(d_tables[1]) = 3
    /\ \E i \in 1..3 : d_tables[1][i] = Payments
    /\ \E i \in 1..3 : d_tables[1][i] = Orders
    /\ \E i \in 1..3 : d_tables[1][i] = Customers
    /\ Raised(ResultOf(1)) /\ ResultOf(1).raised = "ValueError"

(***************************************************************************)
(* Specification of the entry point on qualified and wrapped identifiers   *)
(***************************************************************************)
\* a segment in its wrapper
Wrapped(segment, wrapper) ==
    IF wrapper = "" THEN segment ELSE <<wrapper>> \o segment \o <<wrapper>>

RECURSIVE JoinDots(_)
JoinDots(segments) ==
    IF Len(segments) = 1 THEN segments[1]
    ELSE segments[1] \o <<".">> \o JoinDots(Tail(segments))

\* the identifiers table, schema.table and workspace.schema.table, each
\* segment bare, in backticks or in double quotes
IdentifierSegments ==
    {<<table>> : table \in {<<"o","r","d","e","r","s">>, <<"S","a","l","e","s","_","O","r","d","e","r","s">>}}
    \cup {<<<<"s","a","l","e","s">>, table>> : table \in {<<"o","r","d","e","r","s">>, <<"S","a","l","e","s","_","O","r","d","e","r","s">>}}
    \cup {<<<<"d","e","m","o">>, <<"s","a","l","e","s">>, table>> : table \in {<<"o","r","d","e","r","s">>, <<"S","a","l","e","s","_","O","r","d","e","r","s">>}}

IdentifierUniverse ==
    UNION {{JoinDots([i \in 1..Len(segments) |-> Wrapped(segments[i], wrappers[i])]) :
              wrappers \in [1..Len(segments) -> {"", Backtick, DoubleQuote}]} :
           segments \in IdentifierSegments}

\* the workspace and the schema that a table definition names beside its
\* identifier: none, either under one of its two keys, both, and a blank one
IdentifierOverrides ==
    {<<>>,
     [workspace |-> <<"d","e","m","o">>],
     [database |-> <<"d","e","m","o">>],
     [schema_name |-> <<"s","a","l","e","s">>],
     [workspace |-> <<"d","e","m","o">>, schema |-> <<"s","a","l","e","s">>],
     [workspace |-> <<" "," ">>, database |-> <<"o","t","h","e","r">>]}

\* the defaults of the entry point, and the defaults of a caller
IdentArgs ==
    {DefaultArgs,
     [DefaultArgs EXCEPT !.default_workspace = <<"f","a","l","l","b","a","c","k">>, !.default_schema = <<"f","a","l","l","b","a","c","k","_","s","c","h","e","m","a">>]}

\* a run on the table of orders under one of the identifiers, and customers
IdentInit ==
    /\ \E identifier \in IdentifierUniverse, overrides \in IdentifierOverrides :
          d_tables = << <<overrides @@ [Orders EXCEPT !.table_name = identifier], Customer>> >>
    /\ d_args \in IdentArgs
    /\ DiscStart
    /\ MatchIdle /\ AdvIdle /\ FilterIdle /\ ConfIdle /\ SampleIdle /\ KeyIdle /\ CallIdle /\ CatIdle /\ ProgIdle

SpecIdent == IdentInit /\ [][DiscNext]_vars

\* the segments of an identifier without their wrappers
BareSegments(identifier) ==
    SplitAll(RemoveChar(RemoveChar(identifier, Backtick), DoubleQuote), ".")

\* the segments of an identifier as they are written
WrittenSegments(identifier) == SplitAll(identifier, ".")

\* what a table definition names beside its identifier: the value under the
\* first of the keys where it holds a non-empty one, otherwise; a blank name
\* gives way to the default of the run
FirstGiven(table_entry, keys, otherwise, default) ==
    LET Given(key) == key \in DOMAIN table_entry /\ table_entry[key] # <<>>
        given == SelectSeq(keys, Given)
        named == IF given = <<>> THEN otherwise ELSE Strip(table_entry[given[1]])
    IN  IF named = <<>> THEN default ELSE named

\* the table, schema and workspace that the segments of the identifier of a
\* table definition name; a schema or workspace that the table definition
\* holds under a key of its own comes first, and the defaults of the run
\* stand in for a schema or workspace that is not named
NamedParts(table_entry, segments) ==
    [table |-> segments[Len(segments)],
     schema |-> FirstGiven(table_entry, <<"schema", "schema_name">>,
                           IF Len(segments) >= 2 THEN segments[Len(segments) - 1]
                           ELSE d_args.default_schema,
                           d_args.default_schema),
     workspace |-> FirstGiven(table_entry, <<"workspace", "database">>,
                              IF Len(segments) = 3 THEN segments[1]
                              ELSE d_args.default_workspace,
                              d_args.default_workspace)]

\* the first table of the run in progress is named by parts
ParsedAs(parts) ==
    /\ d_raw_tables[1].table.name = Upper(parts.table)
    /\ d_raw_tables[1].fqn.table = parts.table
    /\ d_raw_tables[1].fqn.schema_name = Upper(parts.schema)
    /\ d_raw_tables[1].fqn.database = Upper(parts.workspace)

\* C15: the table of an identifier table, schema.table or
\* workspace.schema.table, whose segments may be wrapped in backticks or
\* double quotes, is named by the last segment without its wrapper,
\* upper-cased; the segments before it, without their wrappers, are the
\* schema and the workspace (of a table definition that names neither under
\* a key of its own).
C15_WrappersAreStripped ==
    d_pc = "arbitrate" => ParsedAs(NamedParts(d_tables[d_run][1], BareSegments(d_tables[d_run][1].table_name)))

\* the table of an identifier is named by its last segment as written, with
\* its wrapper, upper-cased; the segments before it, as written, are the
\* schema and the workspace of a table definition that names neither under a
\* key of its own
C15_SegmentsAreKeptAsWritten ==
    d_pc = "arbitrate" => ParsedAs(NamedParts(d_tables[d_run][1], WrittenSegments(d_tables[d_run][1].table_name)))

\* a table under an identifier of three segments, the last in backticks, was
\* converted
C15_Witness ==
    /\ d_pc = "arbitrate"
    /\ Len(WrittenSegments(d_tables[d_run][1].table_name)) = 3
    /\ Head(WrittenSegments(d_tables[d_run][1].table_name)[3]) = Backtick
    /\ d_raw_tables[1].fqn.database = <<"D","E","M","O">>

(***************************************************************************)
(* C11                                                                     *)
(***************************************************************************)

\* the relationships that a run returns without a cap on their number
Uncapped == IF d_raw_tables = <<>> THEN <<>> ELSE Infer_assemble(d_accepted, d_args.min_confidence, None)

\* the names of a list of relationships
NamesOf(relationships) == {relationships[i].name : i \in 1..Len(relationships)}

\* the relationships of a list whose name is not among names
NotNamed(relationships, names) ==
    {relationships[i] : i \in {j \in 1..Len(relationships) : relationships[j].name \notin names}}

\* C11: a run with max_relationships = K returns at most K relationships,
\* all of them relationships that the run accepted; every relationship that
\* it returns has a confidence at least that of every accepted relationship
\* that it does not return; and summary.limited_by_max_relationships is true
\* exactly when some accepted relationship is not returned
C11_CapKeepsTopK ==
    [][(Return /\ d_args.max_relationships # None) =>
        LET result == d_results'[Len(d_results')]
            kept == result.relationships
            discarded == NotNamed(Uncapped, NamesOf(kept))
        IN  /\ Len(kept) <= Value(d_args.max_relationships)
            /\ SetOf(kept) \subseteq SetOf(Uncapped)
            /\ Len(kept) + Cardinality(discarded) = Len(Uncapped)
            /\ \A i \in 1..Len(kept) : \A other \in discarded :
                  RatGEq(kept[i].confidence, other.confidence)
            /\ result.summary.limited_by_max_relationships = (discarded # {})]_vars

\* a run that returned one relationship because of max_relationships = 1
C11_Witness ==
    /\ d_pc = "done"
    /\ d_args.max_relationships = Some(1)
    /\ Len(d_results) = 1
    /\ ~Raised(d_results[1])
    /\ Len(d_results[1].relationships) = 1
    /\ d_results[1].summary.limited_by_max_relationships
    /\ ~d_results[1].summary.limited_by_timeout

(***************************************************************************)
(* C12                                                                     *)
(***************************************************************************)

\* the tables and columns that a candidate, or a direct relationship, joins
CandidateKey(c) == <<c.fk_table, c.pk_table, << <<Upper(c.fk_column), Upper(c.pk_column)>> >> >>
RelationshipKey(r) == <<r.left_table, r.right_table, r.column_pairs>>

\* the accepted candidates that are relationships: those that reach
\* min_confidence
AcceptedKeys ==
    {CandidateKey(c) : c \in SetOf(Infer_emitted(d_accepted, d_args.min_confidence))}
DirectKeys(relationships) ==
    {RelationshipKey(relationships[i]) :
        i \in {j \in 1..Len(relationships) : relationships[j].provenance = "direct"}}

\* the candidates that the engine has not arbitrated
PendingKeys ==
    UNION {{CandidateKey(c) : c \in SetOf(d_pending[g])} : g \in 1..Len(d_pending)}

\* the direct relationships of the result are accepted candidates, none of
\* them is a candidate that was pending, and limited_by_timeout tells whether
\* the deadline has passed in the run
ReturnReportsDeadline(result) ==
    /\ DirectKeys(result.relationships) \subseteq AcceptedKeys
    /\ DirectKeys(result.relationships) \cap PendingKeys = {}
    /\ result.summary.limited_by_timeout = d_timed_out

\* a step that leaves the run past its deadline accepts no candidate and
\* arbitrates none of the pending ones
NothingAcceptedPastDeadline ==
    d_timed_out' => (d_accepted' = d_accepted /\ d_pending' = d_pending)

\* the step by which a run returns, seen on the position alone: among the
\* steps of DiscNext these are the Return steps, and one is possible exactly
\* when ReturnReady holds
Returns == ReturnReady /\ d_pc' \in {"call", "done"}

\* the entry point is a sequential function: once its analysis has ended or
\* its deadline has passed it returns; nothing is assumed about how far the
\* analysis gets before the deadline
SpecDiscFair == SpecDisc /\ WF_d_pc(Returns)

RECURSIVE TupleLessEq(_, _)
TupleLessEq(s, t) ==
    IF s = <<>> THEN TRUE
    ELSE IF t = <<>> THEN FALSE
    ELSE IF Head(s) # Head(t) THEN StrLess(Head(s), Head(t))
    ELSE TupleLessEq(Tail(s), Tail(t))

\* (left_table, right_table, left columns, right columns) of a candidate
OrderKey(c) == <<c.fk_table, c.pk_table, c.fk_column, c.pk_column>>

\* C18: along the returned sequence the confidence does not increase, and
\* of two neighbours of equal confidence the first one has the smaller
\* (left_table, right_table, left columns, right columns)
C18_TotalOrder ==
    a_pc = "done" =>
        \A i \in 1..(Len(a_result) - 1) :
            /\ FloatGE(a_result[i].confidence, a_result[i + 1].confidence)
            /\ a_result[i].confidence = a_result[i + 1].confidence
                  => TupleLessEq(OrderKey(a_result[i]), OrderKey(a_result[i + 1]))

\* the confidence does not increase along the returned sequence
C18_ConfidenceDescends ==
    a_pc = "done" =>
        \A i \in 1..(Len(a_result) - 1) :
            FloatGE(a_result[i].confidence, a_result[i + 1].confidence)

(***************************************************************************)
(* Specification of the entry point on junction tables                     *)
(***************************************************************************)
\* the tables of test_bridge_table_creates_many_to_many_link, a second
\* junction table line_items, a table order_lines with two FK columns whose
\* primary key is a single column, and three tables with sample values
Products ==
    [table_name |-> <<"p","r","o","d","u","c","t","s">>,
     columns |-> << PayloadColumn(<<"p","r","o","d","u","c","t","_","i","d">>, <<"N","U","M","B","E","R">>, TRUE),
                    PayloadColumn(<<"s","k","u">>, <<"S","T","R","I","N","G">>, FALSE) >>]
OrderItems ==
    [table_name |-> <<"o","r","d","e","r","_","i","t","e","m","s">>,
     columns |-> << PayloadColumn(<<"o","r","d","e","r","_","i","d">>, <<"N","U","M","B","E","R">>, TRUE),
                    PayloadColumn(<<"p","r","o","d","u","c","t","_","i","d">>, <<"N","U","M","B","E","R">>, TRUE),
                    PayloadColumn(<<"q","u","a","n","t","i","t","y">>, <<"N","U","M","B","E","R">>, FALSE) >>]
LineItems ==
    [table_name |-> <<"l","i","n","e","_","i","t","e","m","s">>,
     columns |-> << PayloadColumn(<<"o","r","d","e","r","_","i","d">>, <<"N","U","M","B","E","R">>, TRUE),
                    PayloadColumn(<<"p","r","o","d","u","c","t","_","i","d">>, <<"N","U","M","B","E","R">>, TRUE),
                    PayloadColumn(<<"q","u","a","n","t","i","t","y">>, <<"N","U","M","B","E","R">>, FALSE) >>]
OrderLines ==
    [table_name |-> <<"o","r","d","e","r","_","l","i","n","e","s">>,
     columns |-> << PayloadColumn(<<"l","i","n","e","_","i","d">>, <<"N","U","M","B","E","R">>, TRUE),
                    PayloadColumn(<<"o","r","d","e","r","_","i","d">>, <<"N","U","M","B","E","R">>, FALSE),
                    PayloadColumn(<<"p","r","o","d","u","c","t","_","i","d">>, <<"N","U","M","B","E","R">>, FALSE) >>]

\* a column definition with sample values and without the key is_primary_key
SampledColumn(name, type, sample_values) ==
    [name |-> name, type |-> type, sample_values |-> sample_values]

\* the tables of test_sample_data_composite_key_inference with shorter lists
\* of sample values: no column is declared a primary key, the values of
\* store.sid repeat, and inventory holds the keys of both other tables
Store ==
    [table_name |-> <<"s","t","o","r","e">>,
     columns |-> << SampledColumn(<<"s","i","d">>, <<"I","N","T">>, <<IntValue("1"), IntValue("1"), IntValue("2"), IntValue("2"), IntValue("3")>>),
                    [name |-> <<"s","t","o","r","e","_","n","a","m","e">>, type |-> <<"V","A","R","C","H","A","R">>] >>]
Product ==
    [table_name |-> <<"p","r","o","d","u","c","t">>,
     columns |-> << SampledColumn(<<"p","i","d">>, <<"I","N","T">>, <<IntValue("101"), IntValue("102"), IntValue("103"), IntValue("104"), IntValue("105")>>),
                    [name |-> <<"p","r","o","d","u","c","t","_","n","a","m","e">>, type |-> <<"V","A","R","C","H","A","R">>] >>]
Inventory ==
    [table_name |-> <<"i","n","v","e","n","t","o","r","y">>,
     columns |-> << SampledColumn(<<"s","i","d">>, <<"I","N","T">>, <<IntValue("1"), IntValue("1"), IntValue("1"), IntValue("2"), IntValue("2")>>),
                    SampledColumn(<<"p","i","d">>, <<"I","N","T">>, <<IntValue("101"), IntValue("102"), IntValue("103"), IntValue("101"), IntValue("102")>>),
                    [name |-> <<"q","t","y">>, type |-> <<"I","N","T">>] >>]

BridgeTableUniverse == {Orders, Products, OrderItems, LineItems, OrderLines, Store, Product, Inventory}

\* the tuning arguments: the defaults, those of the tests, and a cap
BridgeArgs ==
    {DefaultArgs,
     [DefaultArgs EXCEPT !.min_confidence = <<3, 5>>, !.max_relationships = Some(50)],
     [DefaultArgs EXCEPT !.max_relationships = Some(2)]}

BridgeInit ==
    /\ \E tables \in DistinctSeqs(BridgeTableUniverse, 0, MaxDiscTables) : d_tables = <<tables>>
    /\ d_args \in BridgeArgs
    /\ DiscStart
    /\ MatchIdle /\ AdvIdle /\ FilterIdle /\ ConfIdle /\ SampleIdle /\ KeyIdle /\ CallIdle /\ CatIdle /\ ProgIdle

SpecBridge == BridgeInit /\ [][DiscNext]_vars

\* the pairs of accepted candidates that lead from two columns of one table
\* to two distinct other tables
JunctionPairs ==
    {pair \in (1..Len(d_accepted)) \X (1..Len(d_accepted)) :
        /\ pair[1] < pair[2]
        /\ d_accepted[pair[1]].fk_table = d_accepted[pair[2]].fk_table
        /\ d_accepted[pair[1]].fk_column # d_accepted[pair[2]].fk_column
        /\ d_accepted[pair[1]].pk_table # d_accepted[pair[2]].pk_table}

\* the positions in a result of the derived relationships between the
\* tables A and B through the table J
DerivedVia(result, J, A, B) ==
    {i \in 1..Len(result.relationships) :
        /\ result.relationships[i].provenance = "via"
        /\ result.relationships[i].junction = J
        /\ {result.relationships[i].left_table, result.relationships[i].right_table} = {A, B}}

\* relationship r is derived through the table of the accepted candidates a
\* and b from two accepted candidates of that table that lead to the same
\* two tables: its name contains _VIA_<J>, its cardinality is many-to-many
\* and its confidence is the smaller of the confidences of the two
IsBridgeOf(r, a, b) ==
    /\ IsSubstr(<<"_","V","I","A","_">> \o Upper(a.fk_table), r.name)
    /\ r.cardinality = "many-to-many"
    /\ \E pair \in JunctionPairs :
          /\ d_accepted[pair[1]].fk_table = a.fk_table
          /\ {d_accepted[pair[1]].pk_table, d_accepted[pair[2]].pk_table} = {a.pk_table, b.pk_table}
          /\ RatEq(r.confidence, RatMin(d_accepted[pair[1]].raw_confidence,
                                        d_accepted[pair[2]].raw_confidence))

(***************************************************************************)
(* C16                                                                     *)
(***************************************************************************)

RawTable(name) ==
    d_raw_tables[CHOOSE t \in 1..Len(d_raw_tables) : d_raw_tables[t].table.name = name].table

\* the tables that the accepted candidates of column fk_column of J lead to
TargetsOf(J, fk_column) ==
    {d_accepted[i].pk_table :
        i \in {k \in 1..Len(d_accepted) :
                  d_accepted[k].fk_table = J /\ d_accepted[k].fk_column = fk_column}}

\* C17: a relationship is derived through a table J only if the PK group of
\* J is composite and each of its columns is the FK column of an accepted
\* direct relationship, to two distinct other tables in all; a table whose
\* primary key is a single column is never the table of a derived
\* relationship
C17_JunctionHasCompositeKey ==
    [][Return =>
        LET result == d_results'[Len(d_results')]
        IN  \A i \in 1..Len(result.relationships) :
                result.relationships[i].provenance = "via" =>
                    LET J == result.relationships[i].junction
                        pk_group == Infer_pk_columns(RawTable(J))
                        targets == UNION {TargetsOf(J, pk_group[k].column_name) :
                                             k \in 1..Len(pk_group)}
                    IN  /\ Len(pk_group) >= 2
                        /\ \A k \in 1..Len(pk_group) :
                              TargetsOf(J, pk_group[k].column_name) # {}
                        /\ Cardinality(targets) >= 2]_vars

\* a relationship is derived through a table J only if two columns of J are
\* the FK columns of accepted direct relationships to two distinct other
\* tables
C17_JunctionHasTwoDirect ==
    [][Return =>
        LET result == d_results'[Len(d_results')]
        IN  \A i \in 1..Len(result.relationships) :
                result.relationships[i].provenance = "via" =>
                    \E pair \in JunctionPairs :
                        /\ d_accepted[pair[1]].fk_table = result.relationships[i].junction
                        /\ d_accepted[pair[1]].fk_column # d_accepted[pair[2]].fk_column
                        /\ {d_accepted[pair[1]].pk_table, d_accepted[pair[2]].pk_table}
                              = {result.relationships[i].left_table,
                                 result.relationships[i].right_table}]_vars

(***************************************************************************)
(* Specification of _analyze_composite_key_patterns                        *)
(***************************************************************************)
MaxPairs == 2

\* the names offered for the columns of a PK group and of a column pair
KeyNames == {<<"O","R","D","E","R","_","I","D">>, <<"L","I","N","E","_","I","D">>, <<"L","_","O","R","D","E","R","_","I","D">>, <<"L","_","L","I","N","E","_","I","D">>}

\* the pk_candidates of a table whose PK group holds the given names
PkCandidates(names) == [i \in 1..Len(names) |-> <<names[i], <<names[i]>> >>]

\* the PK groups offered: none, and every group of one or two of the names
\* ORDER_ID, LINE_ID, L_ORDER_ID
KeyTableMetas ==
    {[pk_candidates |-> PkCandidates(names)] :
        names \in DistinctSeqs({<<"O","R","D","E","R","_","I","D">>, <<"L","I","N","E","_","I","D">>, <<"L","_","O","R","D","E","R","_","I","D">>}, 0, 2)}

KeyInit ==
    /\ k_table_meta \in KeyTableMetas
    /\ k_column_pairs \in SeqsOver(KeyNames \X KeyNames, 0, MaxPairs)
    /\ k_column_index \in {0, 1}
    /\ k_pc = "call"
    /\ k_analysis = <<>>
    /\ MatchIdle /\ AdvIdle /\ FilterIdle /\ ConfIdle /\ DiscIdle /\ SampleIdle /\ CallIdle /\ CatIdle /\ ProgIdle

AnalyzeCompositeKeyPatterns ==
    /\ k_pc = "call"
    /\ k_analysis' = analyze_composite_key_patterns(k_table_meta, k_column_pairs, k_column_index)
    /\ k_pc' = "done"
    /\ UNCHANGED <<k_table_meta, k_column_pairs, k_column_index>>

KeyNext ==
    AnalyzeCompositeKeyPatterns
    /\ UNCHANGED <<matchVars, advVars, filterVars, confVars, discVars, sampleVars, callVars, catVars, progVars>>

SpecKey == KeyInit /\ [][KeyNext]_vars

\* the PK group of k_table_meta, and the columns that the pairs name on the
\* side of the table
KeyGroup == {k_table_meta.pk_candidates[i][2][1] : i \in 1..Len(k_table_meta.pk_candidates)}
KeySide == {k_column_pairs[i][k_column_index + 1] : i \in 1..Len(k_column_pairs)}

(***************************************************************************)
(* C20                                                                     *)
(***************************************************************************)

\* C20: the coverage is the number of the columns of the PK group that the
\* pairs name on the side of the table, over the size of the PK group,
\* whatever the place of a pair and whatever the other side names; when the
\* pairs name both columns of a PK group of two columns, the PK column
\* count is 2, the coverage is 1.0 and the group is flagged composite
C20_CoverageOnPkSide ==
    k_pc = "done" =>
        /\ k_analysis.pk_column_count = Cardinality(KeySide \cap KeyGroup)
        /\ KeyGroup # {} =>
              RatEq(k_analysis.pk_coverage_ratio,
                    <<Cardinality(KeySide \cap KeyGroup), Cardinality(KeyGroup)>>)
        /\ (Cardinality(KeyGroup) = 2 /\ KeyGroup \subseteq KeySide) =>
              /\ k_analysis.pk_column_count = 2
              /\ RatEq(k_analysis.pk_coverage_ratio, <<1, 1>>)
              /\ k_analysis.is_composite_pk

\* the call of test_composite_pk_analysis_uses_correct_column_side has
\* returned
C20_Witness ==
    /\ k_pc = "done"
    /\ k_table_meta = [pk_candidates |-> PkCandidates(<<<<"O","R","D","E","R","_","I","D">>, <<"L","I","N","E","_","I","D">>>>)]
    /\ k_column_pairs = << <<<<"L","_","O","R","D","E","R","_","I","D">>, <<"O","R","D","E","R","_","I","D">>>>, <<<<"L","_","L","I","N","E","_","I","D">>, <<"L","I","N","E","_","I","D">>>> >>
    /\ k_column_index = 1
    /\ k_analysis.pk_column_count = 2
    /\ RatEq(k_analysis.pk_coverage_ratio, <<1, 1>>)
    /\ k_analysis.is_composite_pk

(***************************************************************************)
(* Sample values of the columns of a schema (clickzetta_connector.py)      *)
(***************************************************************************)

\* re.sub(r"\s+", " ", text): every run of blanks becomes one blank
RECURSIVE CollapseBlanks(_)
CollapseBlanks(text) ==
    IF text = <<>> THEN <<>>
    ELSE IF Head(text) = " "
         THEN <<" ">> \o CollapseBlanks(SubSeq(text, LeadingBlanks(text) + 1, Len(text)))
         ELSE <<Head(text)>> \o CollapseBlanks(Tail(text))

\* _normalize_column_type
normalize_column_type(raw) ==
    LET text == CollapseBlanks(Upper(Strip(raw)))
        CutSuffix(t, suffix) == IF EndsWith(t, suffix) THEN Strip(DropLast(t, Len(suffix))) ELSE t
    IN  IF Strip(raw) = <<>> THEN <<>>
        ELSE CutSuffix(CutSuffix(text, <<" ","N","O","T"," ","N","U","L","L">>), <<" ","N","U","L","L">>)

\* _fetch_distinct_values with an empty answer kept as an empty list
fetch_distinct_values_keeps_empty(answer) ==
    IF answer.raises THEN None
    ELSE Some([i \in 1..Len(answer.rows) |-> StrOf(answer.rows[i])])

\* _fetch_distinct_values: answer is what session.sql(query).to_pandas() does,
\* it raises or it gives the rows of the first column
fetch_distinct_values(answer) ==
    IF answer.raises THEN None
    ELSE IF answer.rows = <<>> THEN None
    ELSE Some([i \in 1..Len(answer.rows) |-> StrOf(answer.rows[i])])

\* _get_column_representation; IS_PRIMARY_KEY is a boolean of the row
get_column_representation(column_row, column_index, ndv) ==
    [id_ |-> column_index,
     column_name |-> column_row.column_name,
     comment |-> <<>>,
     column_type |-> normalize_column_type(column_row.data_type),
     values |-> IF ndv > 0 THEN fetch_distinct_values(column_row.answer) ELSE None,
     is_primary_key |-> column_row.is_primary_key]

\* Series.drop_duplicates: the first occurrence of every value, in order
RECURSIVE drop_duplicates(_)
drop_duplicates(s) ==
    IF s = <<>> THEN <<>>
    ELSE LET init == drop_duplicates(SubSeq(s, 1, Len(s) - 1))
             last == s[Len(s)]
         IN  IF \E i \in 1..Len(init) : init[i] = last THEN init ELSE Append(init, last)

\* table_order of _build_tables_from_dataframe
table_order(columns_df) ==
    drop_duplicates([i \in 1..Len(columns_df) |-> Upper(columns_df[i].table_name)])

\* columns_df[columns_df[_TABLE_NAME_COL] == table_name]
table_columns_df(columns_df, table_name) ==
    LET OfTable(row) == row.table_name = table_name
    IN  SelectSeq(columns_df, OfTable)

\* the position in table_order of the next table after position k that has
\* rows, 0 when the loop of _build_tables_from_dataframe is over
next_table(columns_df, k) ==
    LET order == table_order(columns_df)
        rest == {j \in (k + 1)..Len(order) : table_columns_df(columns_df, order[j]) # <<>>}
    IN  IF rest = {} THEN 0 ELSE CHOOSE j \in rest : \A other \in rest : j <= other

\* the rows of the table in progress
SampleRows == table_columns_df(s_schema, table_order(s_schema)[s_table])

\* sorted(ordered_columns): the keys of the dictionary in ascending order
RECURSIVE sorted_keys(_)
sorted_keys(keys) ==
    IF keys = {} THEN <<>>
    ELSE LET least == CHOOSE key \in keys : \A other \in keys : key <= other
         IN  <<least>> \o sorted_keys(keys \ {least})

\* list(ordered_columns.values()): the values in the order of insertion
columns_as_completed(ordered_columns) ==
    [j \in 1..Len(ordered_columns) |-> ordered_columns[j][2]]

\* columns = [ordered_columns[i] for i in sorted(ordered_columns)]; the
\* dictionary is the sequence of its items <<key, value>> in the order of
\* insertion
columns_in_key_order(ordered_columns) ==
    LET keys == sorted_keys({ordered_columns[j][1] : j \in 1..Len(ordered_columns)})
        item(key) == CHOOSE j \in 1..Len(ordered_columns) : ordered_columns[j][1] = key
    IN  [j \in 1..Len(keys) |-> ordered_columns[item(keys[j])][2]]

\* one future of get_table_representation completes: the column of one row
\* is built and stored under its index; the thread pool completes the
\* futures in any order
FetchColumn ==
    /\ s_pc = "columns"
    /\ \E i \in s_pending :
          /\ s_columns' =
                Append(s_columns, <<i - 1, get_column_representation(SampleRows[i], i - 1, s_ndv)>>)
          /\ s_pending' = s_pending \ {i}
    /\ UNCHANGED <<s_schema, s_ndv, s_table, s_tables, s_pc>>

\* get_table_representation returns, _build_tables_from_dataframe appends the
\* table and goes on to the next table that has rows; the next call starts
\* with an empty dictionary
BuildTable ==
    /\ s_pc = "columns"
    /\ s_pending = {}
    /\ LET table_name == table_order(s_schema)[s_table]
           table_proto == [id_ |-> s_table - 1, name |-> table_name, comment |-> <<>>,
                           columns |-> columns_in_key_order(s_columns)]
           fqn == [database |-> <<"O","F","F","L","I","N","E">>, schema_name |-> <<"P","U","B","L","I","C">>, table |-> table_name]
           following == next_table(s_schema, s_table)
       IN  /\ s_tables' = Append(s_tables, <<fqn, table_proto>>)
           /\ s_table' = following
           /\ s_columns' = IF following = 0 THEN s_columns ELSE <<>>
           /\ IF following = 0
              THEN s_pending' = {} /\ s_pc' = "done"
              ELSE /\ s_pending' = 1..Len(table_columns_df(s_schema, table_order(s_schema)[following]))
                   /\ s_pc' = "columns"
    /\ UNCHANGED <<s_schema, s_ndv>>

\* what the session answers to a sampling query
Raises == [raises |-> TRUE, rows |-> <<>>]
NoRows == [raises |-> FALSE, rows |-> <<>>]
Rows(values) == [raises |-> FALSE, rows |-> values]
SampleAnswers == {Raises, NoRows, Rows(<<IntValue("1"), IntValue("2")>>)}

\* the metadata of two tables USR(UID) and ORD(OID, UID, AMT), the first one
\* also under a name that is not upper case
SampleDataframes ==
    { << [table_name |-> usr, column_name |-> <<"U","I","D">>, data_type |-> <<"B","I","G","I","N","T">>,
          is_primary_key |-> TRUE, answer |-> a1],
         [table_name |-> <<"O","R","D">>, column_name |-> <<"O","I","D">>, data_type |-> <<"b","i","g","i","n","t"," "," ","n","o","t"," ","n","u","l","l">>,
          is_primary_key |-> TRUE, answer |-> a2],
         [table_name |-> <<"O","R","D">>, column_name |-> <<"U","I","D">>, data_type |-> <<"B","I","G","I","N","T"," ","N","U","L","L">>,
          is_primary_key |-> FALSE, answer |-> a3],
         [table_name |-> <<"O","R","D">>, column_name |-> <<"A","M","T">>, data_type |-> <<"D","E","C","I","M","A","L","(","1","0",",","2",")">>,
          is_primary_key |-> FALSE, answer |-> NoRows] >> :
      usr \in {<<"U","S","R">>, <<"U","s","r">>}, a1 \in SampleAnswers, a2 \in SampleAnswers, a3 \in SampleAnswers }

SampleInit ==
    /\ s_schema \in SampleDataframes
    /\ s_ndv \in {0, 3}
    /\ s_table = next_table(s_schema, 0)
    /\ s_pending = 1..Len(table_columns_df(s_schema, table_order(s_schema)[s_table]))
    /\ s_columns = <<>>
    /\ s_tables = <<>>
    /\ s_pc = "columns"
    /\ MatchIdle /\ AdvIdle /\ FilterIdle /\ ConfIdle /\ DiscIdle /\ KeyIdle /\ CallIdle /\ CatIdle /\ ProgIdle

SampleNext ==
    (FetchColumn \/ BuildTable)
    /\ UNCHANGED <<matchVars, advVars, filterVars, confVars, discVars, keyVars, callVars, catVars, progVars>>

SpecSample == SampleInit /\ [][SampleNext]_vars

\* the rows of the table built at position k of s_tables
BuiltRows(k) == table_columns_df(s_schema, s_tables[k][1].table)

\* a sampling query that gave no values
SampleFailed(row) == row.answer.raises \/ row.answer.rows = <<>>

\* the tables of s_schema that have rows, in the order of table_order
TablesWithRows ==
    LET HasRows(table_name) == table_columns_df(s_schema, table_name) # <<>>
    IN  SelectSeq(table_order(s_schema), HasRows)

\* every column built so far
BuiltColumns ==
    UNION {SetOf(s_tables[k][2].columns) : k \in 1..Len(s_tables)}

\* the sample values of a built column as the scorer is handed them, the
\* empty list when they are absent
SampleData(column) ==
    IF column.values = None THEN <<>>
    ELSE [j \in 1..Len(Value(column.values)) |-> <<"str", Value(column.values)[j]>>]

(***************************************************************************)
(* C19                                                                     *)
(***************************************************************************)

\* C19: a sampling query that raises or gives no rows is not propagated: its
\* column is built with its sample values absent, every other column of
\* every table that has rows is still built, with the values the session
\* gave as strings, and an absent sample is scored by
\* calculate_value_containment as the neutral 1/2
C19_SampleFailureIsNotPropagated ==
    s_pc = "done" =>
        /\ [k \in 1..Len(s_tables) |-> s_tables[k][1].table] = TablesWithRows
        /\ \A k \in 1..Len(s_tables) :
              LET columns == s_tables[k][2].columns
              IN  /\ Len(columns) = Len(BuiltRows(k))
                  /\ \A i \in 1..Len(columns) :
                        LET row == BuiltRows(k)[i]
                        IN  /\ columns[i].column_name = row.column_name
                            /\ columns[i].id_ = i - 1
                            /\ (SampleFailed(row) \/ s_ndv = 0) => columns[i].values = None
                            /\ (~SampleFailed(row) /\ s_ndv > 0)
                                  => columns[i].values
                                        = Some([j \in 1..Len(row.answer.rows) |-> StrOf(row.answer.rows[j])])
                            /\ columns[i].values = None
                                  => \A other \in BuiltColumns :
                                        /\ Adv_calculate_value_containment(
                                               SampleData(columns[i]), SampleData(other)) = Float(1, 2)
                                        /\ Adv_calculate_value_containment(
                                               SampleData(other), SampleData(columns[i])) = Float(1, 2)

\* a finished run in which one sampling query raised, one gave no rows and
\* one gave values
C19_Witness ==
    /\ s_pc = "done"
    /\ s_ndv > 0
    /\ Len(s_tables) = 2
    /\ s_tables[1][2].columns[1].values = None
    /\ s_schema[1].answer.raises
    /\ s_tables[2][2].columns[1].values = None
    /\ s_schema[2].answer = NoRows
    /\ s_tables[2][2].columns[2].values = Some(<<"1", "2">>)


(***************************************************************************)
(* C28                                                                     *)
(***************************************************************************)

\* the order in which the futures of the dictionary completed
CompletionOrder == [j \in 1..Len(s_columns) |-> s_columns[j][1]]

\* C28: whatever the order in which the worker threads complete, every
\* table built holds the columns of its rows in the order of the rows, one
\* column per row, the column of row i with id_ i (counted from 0): none is
\* lost, none is there twice
C28_ColumnsInRowOrder ==
    \A k \in 1..Len(s_tables) :
        s_tables[k][2].columns =
            [i \in 1..Len(BuiltRows(k)) |->
                get_column_representation(BuiltRows(k)[i], i - 1, s_ndv)]

\* the columns of the three rows of ORD were fetched last row first, and the
\* table is built
C28_Witness ==
    /\ s_pc = "done"
    /\ CompletionOrder = <<2, 0, 1>>
    /\ Len(s_tables[Len(s_tables)][2].columns) = 3
    /\ s_tables[Len(s_tables)][2].columns[1].column_name = <<"O","I","D">>
    /\ s_tables[Len(s_tables)][2].columns[3].id_ = 2

(***************************************************************************)
(* Specification of find_best_matches                                      *)
(***************************************************************************)
MaxFk == 2

\* <<column, table>> pairs offered as FK candidates; the sum of the factors
\* of ORDERS.ABC and LINEITEM.XYZ123, 0.4 + 0.3 - 0.2, is the float below 0.5
MatchFkUniverse ==
    { <<<<"C","_","N","A","T","I","O","N","K","E","Y">>, <<"C","U","S","T","O","M","E","R">>>>,
      <<<<"s","_","n","a","t","i","o","n","k","e","y">>, <<"s","u","p","p","l","i","e","r">>>>,
      <<<<"V","A","L","U","E">>, <<"T","A","B","L","E","_","A">>>>,
      <<<<"A","B","C">>, <<"O","R","D","E","R","S">>>> }

\* <<column, table>> pairs offered as PK candidates
MatchPkUniverse ==
    { <<<<"N","_","R","E","G","I","O","N","K","E","Y">>, <<"N","A","T","I","O","N">>>>,
      <<<<"N","_","N","A","T","I","O","N","K","E","Y">>, <<"N","A","T","I","O","N">>>>,
      <<<<"N","_","N","A","T","I","O","N","K","E","Y">>, <<"N","A","T","I","O","N","_","B","A","C","K","U","P">>>>,
      <<<<"X","Y","Z","1","2","3">>, <<"L","I","N","E","I","T","E","M">>>> }

\* min_confidence: below the default, and the default 0.5
MatchMinConfidences == {Float(4, 10), Float(5, 10)}

MatchInit ==
    /\ m_fk \in DistinctSeqs(MatchFkUniverse, 0, MaxFk)
    /\ m_pk \in DistinctSeqs(MatchPkUniverse, 0, Cardinality(MatchPkUniverse))
    /\ m_min \in MatchMinConfidences
    /\ m_pc = "call"
    /\ m_matches = <<>>
    /\ AdvIdle /\ FilterIdle /\ ConfIdle /\ DiscIdle /\ SampleIdle /\ KeyIdle /\ CallIdle /\ CatIdle /\ ProgIdle

FindBestMatches ==
    /\ m_pc = "call"
    /\ m_matches' = Matcher_find_best_matches(m_fk, m_pk, m_min)
    /\ m_pc' = "done"
    /\ UNCHANGED <<m_fk, m_pk, m_min>>

MatchNext == FindBestMatches /\ UNCHANGED <<advVars, filterVars, confVars, discVars, sampleVars, keyVars, callVars, catVars, progVars>>

SpecMatch == MatchInit /\ [][MatchNext]_vars

(***************************************************************************)
(* C4                                                                      *)
(***************************************************************************)
\* confidence of FK candidate fk against each PK candidate of m_pk
C4_Conf(fk) ==
    [j \in 1..Len(m_pk) |->
        Matcher_calculate_enhanced_confidence(fk[1], m_pk[j][1], fk[2], m_pk[j][2])]
\* the PK candidates that may be selected, given the confidences conf
C4_Valid(conf) ==
    {j \in DOMAIN conf : FloatGE(conf[j], m_min) /\ FloatGT(conf[j], FloatZero)}
\* those of them with the highest confidence
C4_Top(conf) ==
    {j \in C4_Valid(conf) : \A k \in C4_Valid(conf) : FloatLE(conf[k], conf[j])}
\* the matches a result holds for fk
C4_Of(result, fk) ==
    {i \in 1..Len(result) : result[i].fk_column = fk[1] /\ result[i].fk_table = fk[2]}
C4_Pk(m) == <<m.pk_column, m.pk_table>>

\* C4 (as amended): the PK column selected for an FK column is a candidate of
\* the highest confidence, the first such in iteration order; when only one
\* candidate has the highest confidence the selection is the same for every
\* iteration order of the PK candidates.
C4_BestMatchIsHighest ==
    m_pc = "done" =>
        \A f \in 1..Len(m_fk) :
            LET fk == m_fk[f]
                conf == C4_Conf(fk)
                top == C4_Top(conf)
                mine == C4_Of(m_matches, fk)
            IN  /\ top = {} => mine = {}
                /\ top # {} =>
                    /\ Cardinality(mine) = 1
                    /\ \A i \in mine :
                        /\ \E j \in top :
                            /\ C4_Pk(m_matches[i]) = m_pk[j]
                            /\ m_matches[i].base_confidence = conf[j]
                            /\ \A k \in top : j <= k
                        /\ Cardinality(top) = 1 =>
                            \A q \in Orderings(m_pk) :
                                LET other == Matcher_find_best_matches(<<fk>>, q, m_min)
                                IN  /\ Len(other) = 1
                                    /\ C4_Pk(other[1]) = C4_Pk(m_matches[i])

\* C4 witness: a weaker candidate that reaches min_confidence is listed before
\* the best one, and the best one is selected.
C4_Witness ==
    /\ m_pc = "done"
    /\ \E f \in 1..Len(m_fk) :
        LET conf == C4_Conf(m_fk[f])
        IN  \E j, k \in C4_Valid(conf) :
                /\ j < k
                /\ FloatLT(conf[j], conf[k])
                /\ \E i \in C4_Of(m_matches, m_fk[f]) : C4_Pk(m_matches[i]) = m_pk[k]

\* C4 as claimed: the selection is the same for every iteration order of the
\* PK candidates.
C4_OrderIndependent ==
    m_pc = "done" =>
        \A q \in Orderings(m_pk) :
            LET other == Matcher_find_best_matches(m_fk, q, m_min)
            IN  /\ Len(other) = Len(m_matches)
                /\ \A i \in 1..Len(m_matches) : C4_Pk(other[i]) = C4_Pk(m_matches[i])

(***************************************************************************)
(* clickzetta_utils/utils.py: create_fqn_table                             *)
(***************************************************************************)
\* str.count(ch)
RECURSIVE CountChar(_, _)
CountChar(s, ch) ==
    IF s = <<>> THEN 0
    ELSE (IF Head(s) = ch THEN 1 ELSE 0) + CountChar(Tail(s), ch)

\* create_fqn_table: the FQNParts of workspace.schema.table, or ValueError
create_fqn_table(fqn_str) ==
    IF CountChar(fqn_str, ".") # 2 THEN [raised |-> "ValueError"]
    ELSE LET parts == SplitAll(fqn_str, ".")
         IN  [database |-> Upper(parts[1]), schema_name |-> Upper(parts[2]),
              table |-> Upper(parts[3])]

(***************************************************************************)
(* Specification of create_fqn_table                                       *)
(***************************************************************************)
\* the segments of the names given to create_fqn_table, and the names: one
\* to four segments joined by dots
FqnSegments == {<<"d","a","t","a","b","a","s","e">>, <<"s","c","h","e","m","a">>, <<"t","a","b","l","e">>, <<"S","a","l","e","s","_","2">>, <<>>}
FqnUniverse == {JoinDots(segments) : segments \in SeqsOver(FqnSegments, 1, 4)}

\* a call of function with an argument tuple taken from universe
CallOf(function, universe) ==
    /\ call_fn = function /\ call_args \in universe
    /\ call_pc = "call" /\ call_result = <<>>

FqnInit ==
    /\ CallOf("create_fqn_table", {<<name>> : name \in FqnUniverse})
    /\ MatchIdle /\ AdvIdle /\ FilterIdle /\ ConfIdle /\ DiscIdle /\ SampleIdle /\ KeyIdle /\ CatIdle /\ ProgIdle

CreateFqnTable ==
    /\ call_fn = "create_fqn_table" /\ call_pc = "call"
    /\ call_result' = create_fqn_table(call_args[1])
    /\ call_pc' = "done"
    /\ UNCHANGED <<call_fn, call_args>>

FqnNext ==
    /\ CreateFqnTable
    /\ UNCHANGED <<matchVars, advVars, filterVars, confVars, discVars, sampleVars, keyVars, catVars, progVars>>

SpecFqn == FqnInit /\ [][FqnNext]_vars

\* C21: create_fqn_table on a name with exactly two dots returns FQNParts
\* whose database and schema_name are the first and second segment in upper
\* case and whose table is the third segment as given; on a name whose
\* number of dots is not two it raises ValueError.
C21_TableIsAsGiven ==
    call_pc = "done" =>
        LET segments == SplitAll(call_args[1], ".")
        IN  IF Len(segments) = 3
            THEN call_result = [database |-> Upper(segments[1]),
                                schema_name |-> Upper(segments[2]),
                                table |-> segments[3]]
            ELSE call_result = [raised |-> "ValueError"]

\* the database and the schema are the first two segments in upper case, a
\* name without exactly two dots raises ValueError, and the table is the
\* third segment in upper case
C21_TableIsUpperCased ==
    call_pc = "done" =>
        LET segments == SplitAll(call_args[1], ".")
        IN  IF Len(segments) = 3
            THEN call_result = [database |-> Upper(segments[1]),
                                schema_name |-> Upper(segments[2]),
                                table |-> Upper(segments[3])]
            ELSE call_result = [raised |-> "ValueError"]

(***************************************************************************)
(* Specification of the name similarity                                    *)
(***************************************************************************)
\* column names: equal but for the case, with equal cores, with variant
\* cores, with empty cores, equal but for an underscore, near and far in
\* edit distance, and the empty name
NameUniverse ==
    {<<"c","u","s","t","k","e","y">>, <<"C","U","S","T","K","E","Y">>, <<"C","_","C","U","S","T","K","E","Y">>, <<"C","U","S","T","O","M","E","R","K","E","Y">>, <<"C","_","I","D">>, <<"O","_","I","D">>,
     <<"C","U","S","T","_","N","A","M","E">>, <<"C","U","S","T","N","A","M","E">>, <<>>, <<"S","H","I","P","D","A","T","E">>, <<"S","H","I","P","D","A","T","A">>, <<"A","M","O","U","N","T">>,
     <<"A","C","C","O","U","N","T">>, <<"S","T","A","T","U","S">>}

NameInit ==
    /\ \/ CallOf("enhanced_name_similarity", NameUniverse \X NameUniverse)
       \/ CallOf("calculate_name_similarity_evidence", NameUniverse \X NameUniverse)
    /\ MatchIdle /\ AdvIdle /\ FilterIdle /\ ConfIdle /\ DiscIdle /\ SampleIdle /\ KeyIdle /\ CatIdle /\ ProgIdle

EnhancedNameSimilarity ==
    /\ call_fn = "enhanced_name_similarity" /\ call_pc = "call"
    /\ call_result' = Matcher_enhanced_name_similarity(call_args[1], call_args[2])
    /\ call_pc' = "done"
    /\ UNCHANGED <<call_fn, call_args>>

CalculateNameSimilarityEvidence ==
    /\ call_fn = "calculate_name_similarity_evidence" /\ call_pc = "call"
    /\ call_result' = Scorer_calculate_name_similarity_evidence(call_args[1], call_args[2])
    /\ call_pc' = "done"
    /\ UNCHANGED <<call_fn, call_args>>

NameNext ==
    /\ EnhancedNameSimilarity \/ CalculateNameSimilarityEvidence
    /\ UNCHANGED <<matchVars, advVars, filterVars, confVars, discVars, sampleVars, keyVars, catVars, progVars>>

SpecName == NameInit /\ [][NameNext]_vars

\* the normalized Levenshtein similarity of section 4.3: 0 for an empty
\* operand, 1 for operands that are identical without `_` and `-`, and
\* otherwise 1 - distance / max(length), not below 0
NormalizedLevenshtein(s1, s2) ==
    LET norm1 == RemoveChar(RemoveChar(Upper(s1), "_"), "-")
        norm2 == RemoveChar(RemoveChar(Upper(s2), "_"), "-")
        max_len == Max2(Len(norm1), Len(norm2))
    IN  IF s1 = <<>> \/ s2 = <<>> THEN FloatZero
        ELSE IF norm1 = norm2 THEN Float(1, 1)
        ELSE FloatMax(FloatZero,
                      FloatSub(Float(1, 1),
                               Float(levenshtein_distance(norm1, norm2), max_len)))

\* the core entity of a name and the variant test, as the called function
\* has them
CoreOf(name) ==
    IF call_fn = "enhanced_name_similarity" THEN Matcher_extract_core_entity(Upper(name))
    ELSE Scorer_extract_core_entity(name)
VariantsOf(core1, core2) ==
    IF call_fn = "enhanced_name_similarity" THEN Matcher_are_entity_variants(core1, core2)
    ELSE Scorer_are_entity_variants(core1, core2)

ExactMatch == Upper(call_args[1]) = Upper(call_args[2])
InUnitInterval(r) == FloatGE(r, FloatZero) /\ FloatLE(r, Float(1, 1))

\* C22: the name similarity of two column names is 1.0 when they are equal
\* in upper case, else 0.95 when their core entities are equal, else 0.90
\* when their core entities are entity variants, else exactly the normalized
\* Levenshtein similarity of the two names, never below 0; the result lies
\* in [0,1] and is 1.0 only on an exact match.
C22_NameSimilarityLadder ==
    call_pc = "done" =>
        LET core1 == CoreOf(call_args[1])
            core2 == CoreOf(call_args[2])
            expected ==
                IF ExactMatch THEN Float(1, 1)
                ELSE IF core1 = core2 THEN Float(95, 100)
                ELSE IF VariantsOf(core1, core2) THEN Float(90, 100)
                ELSE NormalizedLevenshtein(call_args[1], call_args[2])
        IN  /\ call_result = expected
            /\ InUnitInterval(call_result)
            /\ call_result = Float(1, 1) => ExactMatch

\* the name similarity lies in [0,1], is 1.0 only on an exact match, 0.95
\* when the names differ and their core entities are equal and not empty,
\* and at most 0.95 whenever the names differ
C22_NameSimilarityBounded ==
    call_pc = "done" =>
        /\ InUnitInterval(call_result)
        /\ call_result = Float(1, 1) => ExactMatch
        /\ ~ExactMatch => FloatLE(call_result, Float(95, 100))
        /\ (~ExactMatch /\ CoreOf(call_args[1]) = CoreOf(call_args[2])
               /\ CoreOf(call_args[1]) # <<>>) => call_result = Float(95, 100)

(***************************************************************************)
(* Specification of the Levenshtein similarity                             *)
(***************************************************************************)
\* operands in upper case, as the name similarity passes them: empty, empty
\* without `_` and `-`, identical without them, near and far
LevUniverse ==
    {<<>>, <<"_">>, <<"A">>, <<"A","B">>, <<"A","_","B">>, <<"A","-","B">>, <<"C","U","S","T","K","E","Y">>, <<"C","U","S","T","_","K","E","Y">>, <<"C","U","S","T","I","D">>,
     <<"O","R","D","E","R","K","E","Y">>, <<"N","A","M","E">>, <<"N","A","T","I","O","N">>}

LevInit ==
    /\ \/ CallOf("_levenshtein_similarity", LevUniverse \X LevUniverse)
       \/ CallOf("_calculate_levenshtein_similarity", LevUniverse \X LevUniverse)
       \/ CallOf("calculate_levenshtein_similarity", LevUniverse \X LevUniverse)
    /\ MatchIdle /\ AdvIdle /\ FilterIdle /\ ConfIdle /\ DiscIdle /\ SampleIdle /\ KeyIdle /\ CatIdle /\ ProgIdle

MatcherLevenshteinSimilarity ==
    /\ call_fn = "_levenshtein_similarity" /\ call_pc = "call"
    /\ call_result' = Matcher_levenshtein_similarity(call_args[1], call_args[2])
    /\ call_pc' = "done"
    /\ UNCHANGED <<call_fn, call_args>>

ScorerLevenshteinSimilarity ==
    /\ call_fn = "_calculate_levenshtein_similarity" /\ call_pc = "call"
    /\ call_result' = Scorer_calculate_levenshtein_similarity(call_args[1], call_args[2])
    /\ call_pc' = "done"
    /\ UNCHANGED <<call_fn, call_args>>

FinalLevenshteinSimilarity ==
    /\ call_fn = "calculate_levenshtein_similarity" /\ call_pc = "call"
    /\ call_result' = Final_calculate_levenshtein_similarity(call_args[1], call_args[2])
    /\ call_pc' = "done"
    /\ UNCHANGED <<call_fn, call_args>>

LevNext ==
    /\ \/ MatcherLevenshteinSimilarity
       \/ ScorerLevenshteinSimilarity
       \/ FinalLevenshteinSimilarity
    /\ UNCHANGED <<matchVars, advVars, filterVars, confVars, discVars, sampleVars, keyVars, catVars, progVars>>

SpecLev == LevInit /\ [][LevNext]_vars

Stripped(s) == RemoveChar(RemoveChar(s, "_"), "-")

\* C23: the Levenshtein similarity, computed after `_` and `-` are removed
\* from both operands, is 0.0 when an operand is empty, 1.0 when the two
\* stripped operands are identical, and otherwise 1 - distance / max(length),
\* within [0,1].
C23_LevenshteinIsNormalized ==
    call_pc = "done" =>
        /\ call_result = NormalizedLevenshtein(call_args[1], call_args[2])
        /\ InUnitInterval(call_result)

\* what each function returns for operands that are identical when stripped
IdenticalScore ==
    IF call_fn = "_levenshtein_similarity" THEN Float(95, 100)
    ELSE IF call_fn = "_calculate_levenshtein_similarity" THEN Float(1, 1)
    ELSE Float(85, 100)

\* the Levenshtein similarity lies in [0,1]; it is 1 - distance / max(length)
\* of the stripped operands when these differ, and for stripped operands
\* that are identical it is 0.95, 1.0 or 0.85 according to the function;
\* _levenshtein_similarity returns its 0.95 for empty operands as well, the
\* other two return 0.0 for an empty operand
C23_LevenshteinButForIdentical ==
    call_pc = "done" =>
        LET norm1 == Stripped(call_args[1])
            norm2 == Stripped(call_args[2])
            empty == call_args[1] = <<>> \/ call_args[2] = <<>>
        IN  /\ InUnitInterval(call_result)
            /\ norm1 # norm2 =>
                  call_result = NormalizedLevenshtein(call_args[1], call_args[2])
            /\ (norm1 = norm2 /\ (~empty \/ call_fn = "_levenshtein_similarity")) =>
                  call_result = IdenticalScore
            /\ (empty /\ call_fn # "_levenshtein_similarity") => call_result = FloatZero

(***************************************************************************)
(* Specification of the core entity extraction                             *)
(***************************************************************************)
\* column names in upper case: a bare suffix, a prefix and a suffix, several
\* suffixes, no suffix, a long leading token, an empty remainder
CoreUniverse ==
    {<<"I","D">>, <<"K","E","Y">>, <<"N","O">>, <<"N","U","M">>, <<"C","_","I","D">>, <<"C","U","S","T","K","E","Y">>, <<"C","_","C","U","S","T","K","E","Y">>, <<"C","U","S","T","I","D","K","E","Y">>,
     <<"O","R","D","E","R","_","I","D","_","K","E","Y">>, <<"X","_","I","D","_","K","E","Y">>, <<"N","A","M","E">>, <<"C","_","N","A","M","E">>, <<"A","B","C","_","N","O">>, <<"I","T","E","M","_","N","U","M">>,
     <<"L","_","S","H","I","P","N","O">>, <<"A","B","_">>, <<"_","I","D">>, <<"C","U","S","T","O","M","E","R","_","I","D">>, <<"P","S","_","S","U","P","P","K","E","Y">>, <<"O","_","O","R","D","E","R","_","K","E","Y">>}

\* enhanced_name_similarity passes names in upper case to
\* _extract_core_entity; the other two functions take the name as written
CoreInit ==
    /\ \/ CallOf("EnhancedRelationshipMatcher._extract_core_entity",
                 {<<name>> : name \in CoreUniverse})
       \/ CallOf("AdvancedConfidenceScorer._extract_core_entity",
                 {<<name>> : name \in CoreUniverse \cup {<<"c","u","s","t","k","e","y">>, <<"c","_","I","d">>}})
       \/ CallOf("FinalOptimizedDiscovery.extract_core_entity",
                 {<<name>> : name \in CoreUniverse \cup {<<"c","u","s","t","k","e","y">>, <<"c","_","I","d">>}})
    /\ MatchIdle /\ AdvIdle /\ FilterIdle /\ ConfIdle /\ DiscIdle /\ SampleIdle /\ KeyIdle /\ CatIdle /\ ProgIdle

MatcherExtractCoreEntity ==
    /\ call_fn = "EnhancedRelationshipMatcher._extract_core_entity" /\ call_pc = "call"
    /\ call_result' = Matcher_extract_core_entity(call_args[1])
    /\ call_pc' = "done"
    /\ UNCHANGED <<call_fn, call_args>>

ScorerExtractCoreEntity ==
    /\ call_fn = "AdvancedConfidenceScorer._extract_core_entity" /\ call_pc = "call"
    /\ call_result' = Scorer_extract_core_entity(call_args[1])
    /\ call_pc' = "done"
    /\ UNCHANGED <<call_fn, call_args>>

FinalExtractCoreEntity ==
    /\ call_fn = "FinalOptimizedDiscovery.extract_core_entity" /\ call_pc = "call"
    /\ call_result' = Final_extract_core_entity(call_args[1])
    /\ call_pc' = "done"
    /\ UNCHANGED <<call_fn, call_args>>

CoreNext ==
    /\ \/ MatcherExtractCoreEntity
       \/ ScorerExtractCoreEntity
       \/ FinalExtractCoreEntity
    /\ UNCHANGED <<matchVars, advVars, filterVars, confVars, discVars, sampleVars, keyVars, catVars, progVars>>

SpecCore == CoreInit /\ [][CoreNext]_vars

\* the name in upper case without its leading token, when the name has a
\* `_` and the token before the first `_` has at most two characters
WithoutPrefix(name) ==
    LET upper == Upper(name)
        first == FirstIndex(upper, "_")
    IN  IF HasChar(upper, "_") /\ first - 1 <= 2
        THEN SubSeq(upper, first + 1, Len(upper))
        ELSE upper

TrailingSuffixes == {<<"K","E","Y">>, <<"I","D">>, <<"N","U","M">>, <<"N","O">>}

\* s without the one suffix that it ends with, if any
WithoutOneSuffix(s) ==
    IF \E suffix \in TrailingSuffixes : EndsWith(s, suffix)
    THEN LET suffix == CHOOSE x \in TrailingSuffixes : EndsWith(s, x)
         IN  SubSeq(s, 1, Len(s) - Len(suffix))
    ELSE s

\* C25: the core entity of a name is the name in upper case, without its
\* leading `_`-separated token when that has at most two characters, and
\* without at most one trailing suffix of KEY, ID, NUM, NO; a name with
\* several trailing suffixes loses one, and a name whose core would be
\* empty yields the name in upper case.
C25_CoreFallsBackToName ==
    call_pc = "done" =>
        LET core == WithoutOneSuffix(WithoutPrefix(call_args[1]))
        IN  call_result = IF core = <<>> THEN Upper(call_args[1]) ELSE core

\* the core entity is the name in upper case without a short leading token
\* and, in _extract_core_entity, without one trailing suffix, empty or not;
\* extract_core_entity removes that suffix and may remove more
C25_CoreMayBeEmpty ==
    call_pc = "done" =>
        LET core == WithoutOneSuffix(WithoutPrefix(call_args[1]))
        IN  IF call_fn = "FinalOptimizedDiscovery.extract_core_entity"
            THEN /\ Len(call_result) <= Len(core)
                 /\ call_result = SubSeq(core, 1, Len(call_result))
            ELSE call_result = core

(***************************************************************************)
(* Specification of the value containment and its part in the confidence   *)
(***************************************************************************)
\* sample values of a column as the scorer takes them (None, or a list that
\* may be empty) and as the discovery takes them (a list that may be empty
\* or hold None)
One == <<"int", "1">>
Two == <<"int", "2">>
ScorerSamples == {None, Some(<<>>), Some(<<One>>), Some(<<Two>>), Some(<<One, Two>>)}
DiscoverySamples == {<<>>, <<One>>, <<Two>>, <<One, Two>>, <<NoneValue>>}

\* the arguments of calculate_comprehensive_confidence: the scores of its
\* name, type, schema and domain evidence, which do not depend on the
\* samples, and the samples of the two columns
ComprehensiveArgs ==
    {<<name, type, schema, domain, samples[1], samples[2]>> :
        name \in ScoreGrid, type \in ScoreGrid, schema \in ScoreGrid, domain \in ScoreGrid,
        samples \in {<<None, None>>, <<Some(<<One>>), None>>, <<None, Some(<<One>>)>>,
                     <<Some(<<One, Two>>), Some(<<One>>)>>}}

ContainInit ==
    /\ \/ CallOf("calculate_value_containment_evidence", ScorerSamples \X ScorerSamples)
       \/ CallOf("calculate_value_containment", DiscoverySamples \X DiscoverySamples)
       \/ CallOf("calculate_comprehensive_confidence", ComprehensiveArgs)
    /\ MatchIdle /\ AdvIdle /\ FilterIdle /\ ConfIdle /\ DiscIdle /\ SampleIdle /\ KeyIdle /\ CatIdle /\ ProgIdle

\* the scorer: the evidence of the value containment, its score and weight
CalculateValueContainmentEvidence ==
    /\ call_fn = "calculate_value_containment_evidence" /\ call_pc = "call"
    /\ call_result' =
          Scorer_calculate_value_containment_evidence(call_args[1], call_args[2], FloatZero)
    /\ call_pc' = "done"
    /\ UNCHANGED <<call_fn, call_args>>

\* the discovery: the value containment feature of a candidate
CalculateValueContainment ==
    /\ call_fn = "calculate_value_containment" /\ call_pc = "call"
    /\ call_result' = [score |-> Adv_calculate_value_containment(call_args[1], call_args[2])]
    /\ call_pc' = "done"
    /\ UNCHANGED <<call_fn, call_args>>

\* the scorer: the final confidence of the seven evidence scores
CalculateComprehensiveConfidence ==
    /\ call_fn = "calculate_comprehensive_confidence" /\ call_pc = "call"
    /\ LET containment ==
               Scorer_calculate_value_containment_evidence(call_args[5], call_args[6], FloatZero)
       IN  call_result' =
              [score |-> containment.score,
               final_confidence |->
                   Scorer_final_confidence(<<call_args[1], call_args[2], call_args[3],
                                             call_args[4], containment.score,
                                             Scorer_placeholder_score,
                                             Scorer_placeholder_score>>)]
    /\ call_pc' = "done"
    /\ UNCHANGED <<call_fn, call_args>>

ContainNext ==
    /\ \/ CalculateValueContainmentEvidence
       \/ CalculateValueContainment
       \/ CalculateComprehensiveConfidence
    /\ UNCHANGED <<matchVars, advVars, filterVars, confVars, discVars, sampleVars, keyVars, catVars, progVars>>

SpecContain == ContainInit /\ [][ContainNext]_vars

\* a side of the call has no sample values
LacksSamples ==
    LET Absent(samples) == samples = None \/ samples = Some(<<>>)
    IN  IF call_fn = "calculate_value_containment"
        THEN call_args[1] = <<>> \/ call_args[2] = <<>>
        ELSE IF call_fn = "calculate_value_containment_evidence"
        THEN Absent(call_args[1]) \/ Absent(call_args[2])
        ELSE Absent(call_args[5]) \/ Absent(call_args[6])

\* the weighted average of seven scores with the weight of the value
\* containment, the fifth, halved
HalvedWeight(n) == IF n = 5 THEN Float(10, 100) ELSE Scorer_evidence_weights[n][2]

RECURSIVE HalvedAccumulate(_, _)
HalvedAccumulate(scores, n) ==
    IF n = 0 THEN <<FloatZero, FloatZero>>
    ELSE LET acc == HalvedAccumulate(scores, n - 1)
         IN  << FloatAdd(acc[1], FloatMul(scores[n], HalvedWeight(n))),
                FloatAdd(acc[2], HalvedWeight(n)) >>

HalvedAverage(scores) ==
    LET acc == HalvedAccumulate(scores, Len(Scorer_evidence_weights))
    IN  FloatDiv(acc[1], acc[2])

\* C24: when the FK side or the PK side has no sample values, the score of
\* the value containment is the neutral 0.5 and never 0, its weight is
\* halved, and the confidence is the weighted average over the weights so
\* changed.
C24_AbsentSamplesAreNeutral ==
    (call_pc = "done" /\ LacksSamples) =>
        /\ call_result.score = Float(1, 2)
        /\ call_fn = "calculate_value_containment_evidence" =>
              call_result.weight = Float(10, 100)
        /\ call_fn = "calculate_comprehensive_confidence" =>
              call_result.final_confidence = HalvedAverage(<<call_args[1], call_args[2], call_args[3], call_args[4], Float(1, 2), Float(1, 2), Float(1, 2) >>)

\* without sample values on a side the discovery scores the neutral 0.5, and
\* the scorer scores the containment ratio of its argument, 0 by default,
\* as 0, keeps the weight 0.20 and averages over the unchanged weights
C24_AbsentSamplesScoreTheDefaultRatio ==
    (call_pc = "done" /\ LacksSamples) =>
        /\ call_fn = "calculate_value_containment" => call_result.score = Float(1, 2)
        /\ call_fn = "calculate_value_containment_evidence" =>
              /\ call_result.score = FloatZero
              /\ call_result.weight = Float(20, 100)
        /\ call_fn = "calculate_comprehensive_confidence" =>
              /\ call_result.score = FloatZero
              /\ call_result.final_confidence = Scorer_final_confidence( <<call_args[1], call_args[2], call_args[3], call_args[4], FloatZero, Float(1, 2), Float(1, 2) >>)

(***************************************************************************)
(* Specification of the type compatibility                                 *)
(***************************************************************************)
\* declared types: those of the compatibility matrix, in either case, with
\* arguments, and types outside the matrix
TypeUniverse ==
    {<<"N","U","M","B","E","R">>, <<"I","N","T","E","G","E","R">>, <<"B","I","G","I","N","T">>, <<"S","T","R","I","N","G">>, <<"V","A","R","C","H","A","R">>, <<"T","E","X","T">>, <<"n","u","m","b","e","r">>,
     <<"I","N","T">>, <<"N","U","M","B","E","R","(","3","8",",","0",")">>, <<"V","A","R","C","H","A","R","(","2","5",")">>, <<"D","A","T","E">>, <<"S","M","A","L","L","I","N","T">>, <<"L","O","N","G","T","E","X","T">>,
     <<"B","O","O","L","E","A","N">>}

TypeInit ==
    /\ CallOf("calculate_type_compatibility_evidence", TypeUniverse \X TypeUniverse)
    /\ MatchIdle /\ AdvIdle /\ FilterIdle /\ ConfIdle /\ DiscIdle /\ SampleIdle /\ KeyIdle /\ CatIdle /\ ProgIdle

CalculateTypeCompatibilityEvidence ==
    /\ call_fn = "calculate_type_compatibility_evidence" /\ call_pc = "call"
    /\ call_result' = Scorer_calculate_type_compatibility_evidence(call_args[1], call_args[2])
    /\ call_pc' = "done"
    /\ UNCHANGED <<call_fn, call_args>>

TypeNext ==
    /\ CalculateTypeCompatibilityEvidence
    /\ UNCHANGED <<matchVars, advVars, filterVars, confVars, discVars, sampleVars, keyVars, catVars, progVars>>

SpecType == TypeInit /\ [][TypeNext]_vars

\* C26: the type compatibility score is symmetric: the score of (a, b) is
\* the score of (b, a) for every pair of declared types.
C26_TypeCompatibilityIsSymmetric ==
    call_pc = "done" =>
        call_result = Scorer_calculate_type_compatibility_evidence(call_args[2], call_args[1])

\* the pairs of different types that the matrix holds in one order and that
\* the fallback scores otherwise
OneWayPairs ==
    { {<<"N","U","M","B","E","R">>, <<"I","N","T","E","G","E","R">>}, {<<"S","T","R","I","N","G">>, <<"V","A","R","C","H","A","R">>}, {<<"V","A","R","C","H","A","R">>, <<"T","E","X","T">>} }

\* the score of (a, b) is the score of (b, a) unless the matrix holds the
\* two types in one order only, NUMBER and INTEGER, STRING and VARCHAR,
\* VARCHAR and TEXT; then it is 0.9 or 0.8 in the order of the matrix and
\* 0.1 in the other
C26_SymmetricButForOneWayPairs ==
    call_pc = "done" =>
        LET reverse == Scorer_calculate_type_compatibility_evidence(call_args[2], call_args[1])
        IN  IF {Upper(call_args[1]), Upper(call_args[2])} \in OneWayPairs
            THEN \/ FloatGE(call_result, Float(8, 10)) /\ reverse = Float(1, 10)
                 \/ FloatGE(reverse, Float(8, 10)) /\ call_result = Float(1, 10)
            ELSE call_result = reverse

(***************************************************************************)
(* Specification of the score of a containment ratio                       *)
(***************************************************************************)
\* containment ratios: the hundredths, and ratios of sample lists close to
\* the boundaries of the segments
RatioUniverse ==
    {Float(k, 100) : k \in 0..100} \cup
        {Float(23, 77), Float(29, 97), Float(59, 99), Float(79, 99), Float(94, 99)}

RatioInit ==
    /\ CallOf("calculate_value_containment_evidence", {None} \X {None} \X RatioUniverse)
    /\ MatchIdle /\ AdvIdle /\ FilterIdle /\ ConfIdle /\ DiscIdle /\ SampleIdle /\ KeyIdle /\ CatIdle /\ ProgIdle

\* the scorer on a containment ratio computed by the caller
ScoreContainmentRatio ==
    /\ call_fn = "calculate_value_containment_evidence" /\ call_pc = "call"
    /\ call_result' =
          Scorer_calculate_value_containment_evidence(call_args[1], call_args[2], call_args[3])
    /\ call_pc' = "done"
    /\ UNCHANGED <<call_fn, call_args>>

RatioNext ==
    /\ ScoreContainmentRatio
    /\ UNCHANGED <<matchVars, advVars, filterVars, confVars, discVars, sampleVars, keyVars, catVars, progVars>>

SpecRatio == RatioInit /\ [][RatioNext]_vars

\* C27: the value containment score stays within [0,1] and is a
\* non-decreasing function of the containment ratio: no greater ratio has a
\* smaller score, across the boundaries of the segments too.
C27_ContainmentScoreIsMonotone ==
    call_pc = "done" =>
        /\ InUnitInterval(call_result.score)
        /\ \A r2 \in RatioUniverse :
              FloatGE(r2, call_args[3]) =>
                  FloatGE(Scorer_containment_score(r2), call_result.score)

\* the score stays within [0,1] and is non-decreasing on each side of the
\* ratio 0.30; below 0.30 it is 0.67 times the ratio, at most 0.201, and it
\* is 0.2 at 0.30
C27_MonotoneOnEachSideOfThirty ==
    call_pc = "done" =>
        /\ InUnitInterval(call_result.score)
        /\ \A r2 \in RatioUniverse :
              /\ FloatGE(r2, call_args[3])
              /\ FloatGE(r2, Float(30, 100)) <=> FloatGE(call_args[3], Float(30, 100))
              => FloatGE(Scorer_containment_score(r2), call_result.score)
        /\ ~FloatGE(call_args[3], Float(30, 100)) =>
              /\ call_result.score = FloatMul(call_args[3], Float(67, 100))
              /\ FloatLE(call_result.score, Float(201, 1000))
        /\ call_args[3] = Float(30, 100) => call_result.score = Float(2, 10)

(***************************************************************************)
(* The catalog category of a workspace (clickzetta_connector.py)           *)
(***************************************************************************)
UNKNOWN == <<"U","N","K","N","O","W","N">>

\* the position of the first column of the frame with the name col, 0 if
\* there is none
ColumnOf(columns, col) ==
    LET found == {j \in 1..Len(columns) : columns[j] = col}
    IN  IF found = {} THEN 0 ELSE CHOOSE j \in found : \A other \in found : j <= other

\* _catalog_category up to the lookup (lines 353-358): what the call returns
\* without asking the session, None if it goes on to ask it; cache is
\* _CATALOG_CATEGORY_CACHE as the call reads it
catalog_category_cached(cache, workspace) ==
    LET workspace_upper == Upper(workspace)
    IN  IF workspace_upper = <<>> THEN Some(UNKNOWN)
        ELSE IF workspace_upper \in DOMAIN cache /\ cache[workspace_upper] # <<>>
        THEN Some(cache[workspace_upper])
        ELSE None

\* _catalog_category after the session has answered (lines 361-392): the
\* category that the call stores under the workspace and returns; answer is
\* what session.sql("SHOW CATALOGS").to_pandas() did, it raised or it gave a
\* frame
catalog_category_found(workspace, answer) ==
    LET workspace_upper == Upper(workspace)
        columns == [j \in 1..Len(answer.columns) |-> Upper(answer.columns[j])]
        workspace_name == ColumnOf(columns, <<"W","O","R","K","S","P","A","C","E","_","N","A","M","E">>)
        name == ColumnOf(columns, <<"N","A","M","E">>)
        catalog_name == ColumnOf(columns, <<"C","A","T","A","L","O","G","_","N","A","M","E">>)
        name_col == IF workspace_name # 0 THEN workspace_name
                    ELSE IF name # 0 THEN name ELSE catalog_name
        category_col == ColumnOf(columns, <<"C","A","T","E","G","O","R","Y">>)
        matching == {i \in 1..Len(answer.rows) : Upper(answer.rows[i][name_col]) = workspace_upper}
    IN  IF answer.raises THEN UNKNOWN
        ELSE IF answer.rows = <<>> \/ answer.columns = <<>> THEN UNKNOWN
        ELSE IF name_col = 0 \/ category_col = 0 THEN UNKNOWN
        ELSE IF matching # {}
        THEN LET first == CHOOSE i \in matching : \A other \in matching : i <= other
             IN  Upper(answer.rows[first][category_col])
        ELSE UNKNOWN

(***************************************************************************)
(* Specification of the calls of _catalog_category                         *)
(***************************************************************************)
MaxCalls == 4

Workspaces == {<<"w","s">>, <<"W","S">>, <<"O","t","h","e","r">>, <<>>}

ShowCatalogsRaises == [raises |-> TRUE, columns |-> <<>>, rows |-> <<>>]
Frame(columns, rows) == [raises |-> FALSE, columns |-> columns, rows |-> rows]

\* what SHOW CATALOGS answers: it fails, it gives no rows, it gives no
\* category column, it gives no row of the workspace, or it gives the
\* category of the workspace, which may be the empty string
CatalogAnswers ==
    {ShowCatalogsRaises,
     Frame(<<<<"w","o","r","k","s","p","a","c","e","_","n","a","m","e">>, <<"c","a","t","e","g","o","r","y">>>>, <<>>),
     Frame(<<<<"n","a","m","e">>, <<"k","i","n","d">>>>, << <<<<"W","S">>, <<"m","a","n","a","g","e","d">>>> >>),
     Frame(<<<<"c","a","t","a","l","o","g","_","n","a","m","e">>, <<"c","a","t","e","g","o","r","y">>>>, << <<<<"t","h","i","r","d">>, <<"m","a","n","a","g","e","d">>>> >>),
     Frame(<<<<"N","A","M","E">>, <<"C","A","T","E","G","O","R","Y">>>>, << <<<<"o","t","h","e","r">>, <<"e","x","t","e","r","n","a","l">>>>, <<<<"W","S">>, <<"s","h","a","r","e","d">>>> >>)}
    \cup {Frame(<<<<"w","o","r","k","s","p","a","c","e","_","n","a","m","e">>, <<"c","a","t","e","g","o","r","y">>>>, << <<<<"w","s">>, category>> >>) :
            category \in {<<"m","a","n","a","g","e","d">>, <<"S","H","A","R","E","D">>, <<>>}}

CatInit ==
    /\ CatIdle
    /\ MatchIdle /\ AdvIdle /\ FilterIdle /\ ConfIdle /\ DiscIdle /\ SampleIdle /\ KeyIdle /\ CallIdle /\ ProgIdle

\* a caller calls _catalog_category (lines 352-360): the call reads the
\* cache and returns, or it asks the session and waits for the answer; the
\* module has no lock, so another caller may call in the meantime
CatalogCategory(caller) ==
    /\ cat_calls < MaxCalls
    /\ cat_pending[caller] = None
    /\ \E workspace \in Workspaces :
          LET cached == catalog_category_cached(cat_cache, workspace)
          IN  IF cached # None
              THEN /\ cat_call' = [id |-> cat_calls + 1, workspace |-> workspace,
                                   result |-> Value(cached), queried |-> FALSE]
                   /\ UNCHANGED cat_pending
              ELSE /\ cat_pending' = [cat_pending EXCEPT ![caller] =
                                         Some([id |-> cat_calls + 1, workspace |-> workspace])]
                   /\ UNCHANGED cat_call
    /\ cat_calls' = cat_calls + 1
    /\ UNCHANGED cat_cache

\* the session answers a waiting call (lines 360-392): the call stores the
\* category in the cache as it is now, and returns it
CatalogCategoryAnswered(caller) ==
    /\ cat_pending[caller] # None
    /\ \E answer \in CatalogAnswers :
          LET call == Value(cat_pending[caller])
              category == catalog_category_found(call.workspace, answer)
          IN  /\ cat_cache' = (Upper(call.workspace) :> category) @@ cat_cache
              /\ cat_call' = [id |-> call.id, workspace |-> call.workspace,
                              result |-> category, queried |-> TRUE]
    /\ cat_pending' = [cat_pending EXCEPT ![caller] = None]
    /\ UNCHANGED cat_calls

CatNext ==
    /\ \E caller \in CatCallers : CatalogCategory(caller) \/ CatalogCategoryAnswered(caller)
    /\ UNCHANGED <<matchVars, advVars, filterVars, confVars, discVars, sampleVars, keyVars, callVars, progVars>>

SpecCat == CatInit /\ [][CatNext]_vars

\* a call returns in the step
CallReturns == cat_call' # cat_call

\* the entry of key stays as it is in the step, and a call for key that
\* returns in the step returns the entry without having asked the session
EntryIsKept(key) ==
    /\ key \in DOMAIN cat_cache'
    /\ cat_cache'[key] = cat_cache[key]
    /\ CallReturns /\ Upper(cat_call'.workspace) = key
          => cat_call'.result = cat_cache[key] /\ ~cat_call'.queried

\* C29: the cache is write-once per workspace: once a call has stored a
\* value for a workspace, every later call for it, in any letter case,
\* returns the stored value without asking the session, and no call changes
\* or removes an entry.
C29_CacheIsWriteOnce ==
    [][\A key \in DOMAIN cat_cache : EntryIsKept(key)]_vars

\* a call for key begins in the step
CallBeginsFor(key) ==
    /\ cat_calls' = cat_calls + 1
    /\ \/ cat_call'.id = cat_calls' /\ Upper(cat_call'.workspace) = key
       \/ \E caller \in CatCallers :
             /\ cat_pending'[caller] # None
             /\ Value(cat_pending'[caller]).id = cat_calls'
             /\ Upper(Value(cat_pending'[caller]).workspace) = key

\* what the code keeps: no entry is ever removed, and a call that begins
\* while the entry of its workspace is not the empty string returns the
\* entry at once, without asking the session and without a change of the
\* cache; an entry is rewritten by a call that began before the entry was
\* stored, or that found the empty string
C29_CallAfterStoreReturnsEntry ==
    [][\A key \in DOMAIN cat_cache :
          /\ key \in DOMAIN cat_cache'
          /\ cat_cache[key] # <<>> /\ CallBeginsFor(key)
                => /\ cat_call' = [id |-> cat_calls', workspace |-> cat_call'.workspace,
                                   result |-> cat_cache[key], queried |-> FALSE]
                   /\ cat_cache' = cat_cache]_vars

\* two calls overlap: both callers wait for the session, for one workspace
C29_CallsOverlap ==
    \A caller \in CatCallers :
        /\ cat_pending[caller] # None
        /\ Upper(Value(cat_pending[caller]).workspace) = <<"W","S">>

(***************************************************************************)
(* EnrichmentProgressTracker (llm/progress_tracker.py)                     *)
(***************************************************************************)
\* stage_weights; COMPLETE has no weight
stage_weights ==
    [metadata_fetch |-> Float(5, 100), table_enrichment |-> Float(70, 100),
     model_description |-> Float(5, 100), model_metrics |-> Float(10, 100),
     verified_queries |-> Float(10, 100)]

StageHasWeight(stage) == stage \in DOMAIN stage_weights

\* a percentage that forgets the stages completed
percentage_of_stage_only(completed_stage_progress, stage, current, total) ==
    LET stage_weight == IF StageHasWeight(stage) THEN stage_weights[stage] ELSE FloatZero
        stage_progress == IF total > 0
                          THEN FloatMul(FloatMin(Float(current, total), Float(1, 1)), stage_weight)
                          ELSE FloatZero
    IN  FloatMin(FloatMax(FloatMul(stage_progress, Float(100, 1)), FloatZero), Float(100, 1))

\* _stage_completed: the accumulated progress after the stage
stage_completed(completed_stage_progress, stage) ==
    IF StageHasWeight(stage)
    THEN FloatAdd(completed_stage_progress, stage_weights[stage])
    ELSE completed_stage_progress

\* _calculate_overall_percentage
calculate_overall_percentage(completed_stage_progress, stage, current, total) ==
    LET stage_weight == IF StageHasWeight(stage) THEN stage_weights[stage] ELSE FloatZero
        stage_progress == IF total > 0
                          THEN FloatMul(FloatMin(Float(current, total), Float(1, 1)), stage_weight)
                          ELSE FloatZero
        total_progress == FloatAdd(completed_stage_progress, stage_progress)
    IN  FloatMin(FloatMax(FloatMul(total_progress, Float(100, 1)), FloatZero), Float(100, 1))

\* update_progress on the tracker of the state; the callback takes the
\* update or raises, and what it raises is swallowed
UpdateProgress(stage, current, total) ==
    LET completed == IF p_stage # stage THEN stage_completed(p_completed, p_stage)
                     ELSE p_completed
        percentage == calculate_overall_percentage(completed, stage, current, total)
    IN  /\ p_stage' = stage
        /\ p_completed' = completed
        /\ \E callback_raises \in BOOLEAN :
              p_updates' = Append(p_updates,
                                  [stage |-> stage, current_step |-> current,
                                   total_steps |-> total, percentage |-> percentage,
                                   callback_raised |-> callback_raises])

(***************************************************************************)
(* Specification of the progress of enrich_semantic_model                  *)
(***************************************************************************)
MaxModelTables == 3

\* the stages of one update before and one after the work of the stage
ModelStages == <<"model_description", "model_metrics", "verified_queries">>

ProgInit ==
    /\ \E n \in 1..MaxModelTables : p_tables \in [1..n -> BOOLEAN]
    /\ p_index = 0
    /\ p_pc = <<"start", 0>>
    /\ p_stage = "metadata_fetch"
    /\ p_completed = FloatZero
    /\ p_updates = <<>>
    /\ MatchIdle /\ AdvIdle /\ FilterIdle /\ ConfIdle /\ DiscIdle /\ SampleIdle /\ KeyIdle /\ CallIdle /\ CatIdle

\* the position after the loop over the tables is left at table_index
AfterTable(table_index) ==
    IF table_index = Len(p_tables) THEN <<ModelStages[1], 0>> ELSE <<"tables", 0>>

\* "Starting table enrichment"
StartTableEnrichment ==
    /\ p_pc = <<"start", 0>>
    /\ UpdateProgress("table_enrichment", 0, Len(p_tables))
    /\ p_pc' = <<"tables", 0>>
    /\ UNCHANGED <<p_tables, p_index>>

\* a table without raw metadata is skipped without an update
SkipTable ==
    /\ p_pc = <<"tables", 0>>
    /\ ~p_tables[p_index + 1]
    /\ p_index' = p_index + 1
    /\ p_pc' = AfterTable(p_index + 1)
    /\ UNCHANGED <<p_tables, p_stage, p_completed, p_updates>>

\* "Enriching table ...": the update of a table that has raw metadata; the
\* failures of the enrichment of the table are caught
EnrichTable ==
    /\ p_pc = <<"tables", 0>>
    /\ p_tables[p_index + 1]
    /\ UpdateProgress("table_enrichment", p_index + 1, Len(p_tables))
    /\ p_index' = p_index + 1
    /\ p_pc' = AfterTable(p_index + 1)
    /\ UNCHANGED p_tables

\* the update before the work of a model stage
StartStage ==
    /\ \E k \in 1..Len(ModelStages) :
          /\ p_pc = <<ModelStages[k], 0>>
          /\ UpdateProgress(ModelStages[k], 0, 1)
          /\ p_pc' = <<ModelStages[k], 1>>
    /\ UNCHANGED <<p_tables, p_index>>

\* the update after the work of a model stage
FinishStage ==
    /\ \E k \in 1..Len(ModelStages) :
          /\ p_pc = <<ModelStages[k], 1>>
          /\ UpdateProgress(ModelStages[k], 1, 1)
          /\ p_pc' = IF k < Len(ModelStages) THEN <<ModelStages[k + 1], 0>> ELSE <<"complete", 0>>
    /\ UNCHANGED <<p_tables, p_index>>

\* mark_complete
MarkComplete ==
    /\ p_pc = <<"complete", 0>>
    /\ UpdateProgress("complete", 1, 1)
    /\ p_pc' = <<"done", 0>>
    /\ UNCHANGED <<p_tables, p_index>>

ProgNext ==
    /\ \/ StartTableEnrichment
       \/ SkipTable
       \/ EnrichTable
       \/ StartStage
       \/ FinishStage
       \/ MarkComplete
    /\ UNCHANGED <<matchVars, advVars, filterVars, confVars, discVars, sampleVars, keyVars, callVars, catVars>>

SpecProg == ProgInit /\ [][ProgNext]_vars

\* the number of tables of the model that have raw metadata
RECURSIVE CountTrue(_)
CountTrue(flags) ==
    IF flags = <<>> THEN 0
    ELSE (IF Head(flags) THEN 1 ELSE 0) + CountTrue(Tail(flags))

\* the stages of the updates so far
StagesReported == [j \in 1..Len(p_updates) |-> p_updates[j].stage]

\* C30: over the updates that enrich_semantic_model issues, the percentage
\* stays within [0,100] and never decreases from one update to the next; a
\* callback that raises does not interrupt the sequence: a finished run has
\* issued the first update, one update per table with raw metadata, two per
\* model stage and COMPLETE, and COMPLETE reports 100
C30_PercentageNeverDecreases ==
    /\ \A j \in 1..Len(p_updates) :
          /\ FloatGE(p_updates[j].percentage, FloatZero)
          /\ FloatLE(p_updates[j].percentage, Float(100, 1))
          /\ j > 1 => FloatGE(p_updates[j].percentage, p_updates[j - 1].percentage)
    /\ p_pc = <<"done", 0>> =>
          /\ Len(p_updates) = 1 + CountTrue(p_tables) + 2 * Len(ModelStages) + 1
          /\ p_updates[Len(p_updates)].stage = "complete"
          /\ p_updates[Len(p_updates)].percentage = Float(100, 1)

\* a finished run over three tables, the second without raw metadata, in
\* which the callback raised on the update of the first table and on a model
\* stage: the percentages went 5, 28.33, 75, ..., 100
C30_Witness ==
    /\ p_pc = <<"done", 0>>
    /\ p_tables = <<TRUE, FALSE, TRUE>>
    /\ p_updates[2].callback_raised
    /\ p_updates[5].callback_raised
    /\ p_updates[1].percentage = Float(5, 1)
    /\ FloatGT(p_updates[2].percentage, Float(28, 1))
    /\ FloatLT(p_updates[2].percentage, Float(29, 1))
    /\ p_updates[3].percentage = Float(75, 1)
    /\ StagesReported[Len(p_updates)] = "complete"

=============================================================================
